---- MODULE Spec2Model ----
(***************************************************************************)
(* A model of go_auth: the TunnelAuthMiddleware request gate               *)
(* (pkg/authmiddleware) and the challenge-response client                  *)
(* (pkg/authclient).                                                       *)
(*                                                                         *)
(* Strings are sequences of one-character strings, so that prefix tests,   *)
(* splitting and equality are computed the way the Go code computes them;  *)
(* the empty string is << >>.                                              *)
(***************************************************************************)
EXTENDS Integers, Sequences, FiniteSets, TLC

VARIABLES
    \* ---- authmiddleware ----
    config,        \* TunnelAuthMiddleware.config: WhitelistPaths, RequireTunnel
    accessToken,   \* what Config.GetAccessToken() returns when called now
    handled,       \* TRUE once a request went through the handler
    req,           \* the request last handed to the handler
    supplied,      \* what GetAccessToken() would return while req was handled
    resp,          \* status written by the gate for req (0: none written)
    nextCalls,     \* how often next.ServeHTTP ran for req
    tokenReads,    \* the values GetAccessToken() returned to the handler for req
    prev,          \* the request handled before req and what became of it
    flight         \* the handler's goroutines: the request each one is serving

VARIABLES
    \* ---- authclient ----
    clientConfig,  \* the ClientConfig NewClient was called with
    client,        \* the Client struct: clientID, privateKey, maxRetries, retryBackoff
    pc,            \* where the caller's Authenticate() call stands
    retriesLeft,   \* authenticateWithRetry's parameter in the current frame
    challengeResp, \* the ChallengeResponse.Challenge of the current attempt
    signature,     \* the signature of the current attempt
    result,        \* what Authenticate() returned: (VerifyResponse, error)
    issued,        \* challenges the verifier has issued during this call
    trace,         \* the requests, signings and sleeps of this call, in order
    entryClient,   \* the Client's fields when the running Authenticate() was entered
    health,        \* the last Health() call: its request and what it returned
    last           \* how the Authenticate() call before this one ended

VARIABLES
    \* ---- internal/crypto ----
    signed,        \* the last SignChallenge call: arguments and results
    verified       \* the last VerifySignature call: arguments and result

VARIABLES
    \* ---- pkg/keygen ----
    generated,     \* the last GeneratePrivateKey call: argument and results
    saved,         \* the last GenerateAndSaveKeyPair call: arguments and result
    files          \* the files written, by name

VARIABLES
    \* ---- the objects around the Client ----
    httpObj,       \* the *http.Client the caller passes in ClientConfig.HTTPClient
    other          \* the Client constructed before the present one, still in use

gateVars ==
    <<config, accessToken, handled, req, supplied, resp, nextCalls, tokenReads,
      prev, flight>>

authVars ==
    <<clientConfig, client, pc, retriesLeft, challengeResp, signature, result,
      issued, trace, entryClient, health, last>>

cryptoVars == <<signed, verified>>

keyVars == <<generated, saved, files>>

ctorVars == <<httpObj, other>>

vars == <<gateVars, authVars, cryptoVars, keyVars, ctorVars>>

-----------------------------------------------------------------------------
(* Strings *)

EmptyString == << >>

SP == " "

\* strings.HasPrefix(s, prefix)
HasPrefix(s, prefix) ==
    /\ Len(prefix) <= Len(s)
    /\ SubSeq(s, 1, Len(prefix)) = prefix

\* strings.SplitN(s, " ", 2): cut at the first separator, at most two parts
SplitN2(s) ==
    IF \E i \in 1..Len(s) : s[i] = SP
    THEN LET i == CHOOSE k \in 1..Len(s) :
                      /\ s[k] = SP
                      /\ \A j \in 1..(k - 1) : s[j] # SP
         IN  << SubSeq(s, 1, i - 1), SubSeq(s, i + 1, Len(s)) >>
    ELSE << s >>

\* http.Header.Get(key): the first value of the key, "" when it has none
HeaderGet(header, key) ==
    IF Len(header[key]) = 0 THEN EmptyString ELSE header[key][1]

-----------------------------------------------------------------------------
(* authmiddleware: constants of the model's inputs *)

Bearer == <<"B", "e", "a", "r", "e", "r">>
Basic  == <<"B", "a", "s", "i", "c">>
bearerLower == <<"b", "e", "a", "r", "e", "r">>

MethodOptions == "OPTIONS"

StatusUnauthorized == 401
StatusForbidden == 403
StatusInternalServerError == 500

\* token values: the supplier's and the presented ones
TokA == <<"t", "1">>
TokB == <<"t", "2">>
TokSpaced == <<"t", " ", "1">>

SupplierTokens == {EmptyString, TokA, TokSpaced}

Methods == {"GET", MethodOptions}

PathHealth    == <<"/", "h">>
PathHealthSub == <<"/", "h", "/", "x">>
PathHealthz   == <<"/", "h", "z">>
PathPublic    == <<"/", "p">>
PathApi       == <<"/", "a">>

Paths == {PathHealth, PathHealthSub, PathHealthz, PathApi}

\* Config.WhitelistPaths values tried
Whitelists ==
    { << >>, <<PathHealth>>, <<PathPublic, PathHealthSub>>, <<EmptyString>> }

\* Authorization header values
AuthValues ==
    { EmptyString,
      Bearer,
      Bearer \o <<SP>>,
      Bearer \o <<SP>> \o TokA,
      Bearer \o <<SP>> \o TokB,
      Bearer \o <<SP>> \o TokSpaced,
      Bearer \o <<SP, SP>> \o TokA,
      Basic \o <<SP>> \o TokA,
      bearerLower \o <<SP>> \o TokA,
      <<SP>> \o Bearer \o <<SP>> \o TokA,
      TokA }

\* a header key's value list: absent, one value (possibly empty), or two values
AuthHeaderLists ==
    {<< >>} \cup { <<v>> : v \in AuthValues }
            \cup { <<Basic \o <<SP>> \o TokA, Bearer \o <<SP>> \o TokA>> }

CdnLoopValue == <<"c", "f">>

CdnHeaderLists == { << >>, <<EmptyString>>, <<CdnLoopValue>> }

\* http.Header: each key's list of values
HeaderOf(authorization, cdnLoop) ==
    [ key \in {"Authorization", "Cloudflare-Cdn-Loop"} |->
        IF key = "Authorization" THEN authorization ELSE cdnLoop ]

Requests ==
    [ Method : Methods,
      Path : Paths,
      Header : { HeaderOf(a, c) : a \in AuthHeaderLists, c \in CdnHeaderLists } ]

-----------------------------------------------------------------------------
(* authmiddleware: the handler *)

\* mutant: exact match only, no prefix match
isWhitelisted_ExactOnly(cfg, path) ==
    \E i \in 1..Len(cfg.WhitelistPaths) : path = cfg.WhitelistPaths[i]

\* mutant: an entry matches only up to a path-segment boundary
isWhitelisted_SegmentBoundary(cfg, path) ==
    \E i \in 1..Len(cfg.WhitelistPaths) :
        \/ path = cfg.WhitelistPaths[i]
        \/ HasPrefix(path, cfg.WhitelistPaths[i] \o <<"/">>)

\* TunnelAuthMiddleware.isWhitelisted
isWhitelisted(cfg, path) ==
    \E i \in 1..Len(cfg.WhitelistPaths) :
        \/ path = cfg.WhitelistPaths[i]
        \/ HasPrefix(path, cfg.WhitelistPaths[i])

\* TunnelAuthMiddleware.isFromCloudflare
isFromCloudflare(r) ==
    HeaderGet(r.Header, "Cloudflare-Cdn-Loop") # EmptyString

\* the handler's outcomes: next.ServeHTTP(w, r), or http.Error(w, ..., status);
\* reads are the values GetAccessToken() returned on the way
Forward(reads) == [next |-> 1, status |-> 0, reads |-> reads]

\* mutant: the return after http.Error is missing, the handler runs on to next
Reject_NoReturn(status, reads) == [next |-> 1, status |-> status, reads |-> reads]

\* http.Error(w, ..., status); return
Reject(status, reads) == [next |-> 0, status |-> status, reads |-> reads]

\* mutant: OPTIONS requests are checked like any other
IsPreflight_Never(r) == FALSE

\* r.Method == http.MethodOptions
IsPreflight(r) == r.Method = MethodOptions

\* mutant: the negation of the marker test is lost
TunnelDenied_Inverted(cfg, r) == cfg.RequireTunnel /\ isFromCloudflare(r)

\* m.config.RequireTunnel && !m.isFromCloudflare(r)
TunnelDenied(cfg, r) == cfg.RequireTunnel /\ ~isFromCloudflare(r)

\* mutant: the scheme word is not compared
InvalidFormat_AnyScheme(parts) == Len(parts) # 2

\* mutant: the scheme word is compared without regard to case
InvalidFormat_AnyCase(parts) ==
    Len(parts) # 2 \/ parts[1] \notin {Bearer, bearerLower}

\* len(parts) != 2 || parts[0] != "Bearer"
InvalidFormat(parts) == Len(parts) # 2 \/ parts[1] # Bearer

\* mutant: the "not initialized" test is missing
TokenCheck_NoEmptyTest(token, expectedToken) ==
    IF token # expectedToken
    THEN Reject(StatusUnauthorized, <<expectedToken>>)
    ELSE Forward(<<expectedToken>>)

\* the token check of the handler (expectedToken := m.config.GetAccessToken())
TokenCheck(token, expectedToken) ==
    IF expectedToken = EmptyString
    THEN Reject(StatusInternalServerError, <<expectedToken>>)
    ELSE IF token # expectedToken
         THEN Reject(StatusUnauthorized, <<expectedToken>>)
         ELSE Forward(<<expectedToken>>)

\* the handler up to its call of GetAccessToken: either the request is decided
\* there, or the presented token is known and the supplier is asked next
PreToken(cfg, r) ==
    IF IsPreflight(r)
    THEN [decided |-> TRUE, out |-> Forward(<< >>), token |-> EmptyString]
    ELSE IF isWhitelisted(cfg, r.Path)
    THEN [decided |-> TRUE, out |-> Forward(<< >>), token |-> EmptyString]
    ELSE IF TunnelDenied(cfg, r)
    THEN [decided |-> TRUE, out |-> Reject(StatusForbidden, << >>), token |-> EmptyString]
    ELSE LET authHeader == HeaderGet(r.Header, "Authorization") IN
         IF authHeader = EmptyString
         THEN [decided |-> TRUE, out |-> Reject(StatusUnauthorized, << >>),
               token |-> EmptyString]
    ELSE LET parts == SplitN2(authHeader) IN
         IF InvalidFormat(parts)
         THEN [decided |-> TRUE, out |-> Reject(StatusUnauthorized, << >>),
               token |-> EmptyString]
    ELSE [decided |-> FALSE, out |-> Forward(<< >>), token |-> parts[2]]

\* mutant: the supplier is asked, and its emptiness answered, before the
\* Authorization header is looked at
Middleware_SupplierFirst(cfg, tok, r) ==
    IF IsPreflight(r) THEN Forward(<< >>)
    ELSE IF isWhitelisted(cfg, r.Path) THEN Forward(<< >>)
    ELSE IF TunnelDenied(cfg, r) THEN Reject(StatusForbidden, << >>)
    ELSE IF tok = EmptyString THEN Reject(StatusInternalServerError, <<tok>>)
    ELSE LET authHeader == HeaderGet(r.Header, "Authorization") IN
         IF authHeader = EmptyString THEN Reject(StatusUnauthorized, <<tok>>)
    ELSE LET parts == SplitN2(authHeader) IN
         IF InvalidFormat(parts) THEN Reject(StatusUnauthorized, <<tok>>)
    ELSE IF parts[2] # tok THEN Reject(StatusUnauthorized, <<tok>>)
    ELSE Forward(<<tok>>)

\* the handler returned by TunnelAuthMiddleware.Middleware, run on request r
\* while GetAccessToken() returns tok
Middleware(cfg, tok, r) ==
    LET p == PreToken(cfg, r) IN
    IF p.decided THEN p.out ELSE TokenCheck(p.token, tok)

\* mutant: the value the supplier had at the previous request is kept
GetAccessToken_Cached == IF handled THEN supplied ELSE accessToken

\* m.config.GetAccessToken(): the supplier's value at the moment of the call
GetAccessToken == accessToken

NoRequest ==
    [ Method |-> "GET", Path |-> EmptyString,
      Header |-> HeaderOf(<< >>, << >>) ]

\* no request was handled before
NoPrev ==
    [ handled |-> FALSE, req |-> NoRequest, supplied |-> EmptyString,
      resp |-> 0, nextCalls |-> 0 ]

\* how many requests are served at the same time
MaxGoroutines == 2

\* the goroutines net/http runs the handler on, one for each request
Goroutines == 1..MaxGoroutines

\* a goroutine serving no request
IdleFlight ==
    [ pc |-> "idle", req |-> NoRequest, expectedToken |-> EmptyString,
      next |-> 0, status |-> 0, reads |-> << >>, overlapped |-> FALSE ]

InitGate ==
    /\ config \in [ WhitelistPaths : Whitelists, RequireTunnel : BOOLEAN ]
    /\ accessToken \in SupplierTokens
    /\ handled = FALSE
    /\ req = NoRequest
    /\ supplied = EmptyString
    /\ resp = 0
    /\ nextCalls = 0
    /\ tokenReads = << >>
    /\ prev = NoPrev
    /\ flight = [g \in Goroutines |-> IdleFlight]

\* one request through the handler
ServeHTTP ==
    /\ \E r \in Requests :
        LET out == Middleware(config, GetAccessToken, r) IN
        /\ req' = r
        /\ resp' = out.status
        /\ nextCalls' = out.next
        /\ tokenReads' = out.reads
    /\ handled' = TRUE
    /\ supplied' = accessToken
    /\ UNCHANGED <<config, accessToken, prev, flight>>
    /\ UNCHANGED <<authVars, cryptoVars, keyVars, ctorVars>>

\* the session behind GetAccessToken changes (the closure is a live binding)
TokenChange ==
    /\ \E t \in SupplierTokens : t # accessToken /\ accessToken' = t
    /\ UNCHANGED <<config, handled, req, supplied, resp, nextCalls, tokenReads>>
    /\ UNCHANGED <<prev, flight>>
    /\ UNCHANGED <<authVars, cryptoVars, keyVars, ctorVars>>

NextGate == ServeHTTP \/ TokenChange

-----------------------------------------------------------------------------
(* authmiddleware: requests one after the other, the one before remembered *)

LiveConfigs == [ WhitelistPaths : { << >>, <<PathHealth>> }, RequireTunnel : BOOLEAN ]

LiveRequests ==
    [ Method : Methods,
      Path : {PathHealth, PathApi},
      Header : { HeaderOf(a, c) :
                   a \in { << >>, <<Bearer \o <<SP>> \o TokA>>,
                           <<Bearer \o <<SP>> \o TokSpaced>> },
                   c \in { << >>, <<CdnLoopValue>> } } ]

InitLive ==
    /\ config \in LiveConfigs
    /\ accessToken \in SupplierTokens
    /\ handled = FALSE
    /\ req = NoRequest
    /\ supplied = EmptyString
    /\ resp = 0
    /\ nextCalls = 0
    /\ tokenReads = << >>
    /\ prev = NoPrev
    /\ flight = [g \in Goroutines |-> IdleFlight]

\* one request through the handler, after the one before it returned
ServeHTTPInOrder ==
    /\ \E r \in LiveRequests :
        LET out == Middleware(config, GetAccessToken, r) IN
        /\ req' = r
        /\ resp' = out.status
        /\ nextCalls' = out.next
        /\ tokenReads' = out.reads
    /\ handled' = TRUE
    /\ supplied' = accessToken
    /\ prev' = [ handled |-> handled, req |-> req, supplied |-> supplied,
                 resp |-> resp, nextCalls |-> nextCalls ]
    /\ UNCHANGED <<config, accessToken, flight>>
    /\ UNCHANGED <<authVars, cryptoVars, keyVars, ctorVars>>

NextLive == ServeHTTPInOrder \/ TokenChange

-----------------------------------------------------------------------------
(* authmiddleware: requests served concurrently, one goroutine each. A
   goroutine's steps are cut where it touches what it shares with the others:
   the call of GetAccessToken. *)

ConcConfigs == [ WhitelistPaths : { << >>, <<PathApi>> }, RequireTunnel : BOOLEAN ]

ConcRequests ==
    [ Method : Methods,
      Path : {PathApi},
      Header : { HeaderOf(a, c) :
                   a \in { << >>, <<Bearer \o <<SP>> \o TokA>> },
                   c \in { << >>, <<CdnLoopValue>> } } ]

InitConc ==
    /\ config \in ConcConfigs
    /\ accessToken \in SupplierTokens
    /\ handled = FALSE
    /\ req = NoRequest
    /\ supplied = EmptyString
    /\ resp = 0
    /\ nextCalls = 0
    /\ tokenReads = << >>
    /\ prev = NoPrev
    /\ flight = [g \in Goroutines |-> IdleFlight]

\* another goroutine is inside the handler
OthersInFlight(g) ==
    \E h \in Goroutines \ {g} : flight[h].pc \in {"read", "compare"}

\* flight with goroutine g's record replaced by f, every goroutine that is
\* inside the handler at the same time marked as overlapped
Step(g, f) ==
    [ h \in Goroutines |->
        IF h = g THEN [f EXCEPT !.overlapped = f.overlapped \/ OthersInFlight(g)]
        ELSE IF flight[h].pc \in {"read", "compare"}
             THEN [flight[h] EXCEPT !.overlapped = TRUE]
             ELSE flight[h] ]

\* mutant: the comparison uses the supplier's value of the moment, not the
\* value the supplier returned to this request
ExpectedToken_Shared(f) == accessToken

\* the handler's local variable expectedToken
ExpectedToken(f) == f.expectedToken

\* a request arrives: the handler runs up to its call of GetAccessToken
HandlerBegin ==
    /\ \E g \in Goroutines, r \in ConcRequests :
        /\ flight[g].pc = "idle"
        /\ LET p == PreToken(config, r) IN
           flight' = Step(g,
               IF p.decided
               THEN [IdleFlight EXCEPT !.pc = "done", !.req = r,
                                       !.next = p.out.next, !.status = p.out.status]
               ELSE [IdleFlight EXCEPT !.pc = "read", !.req = r])
    /\ UNCHANGED <<config, accessToken, handled, req, supplied, resp, nextCalls,
                   tokenReads, prev>>
    /\ UNCHANGED <<authVars, cryptoVars, keyVars, ctorVars>>

\* expectedToken := m.config.GetAccessToken()
HandlerReadToken ==
    /\ \E g \in Goroutines :
        /\ flight[g].pc = "read"
        /\ flight' = Step(g, [flight[g] EXCEPT !.pc = "compare",
                                               !.expectedToken = GetAccessToken,
                                               !.reads = <<GetAccessToken>>])
    /\ UNCHANGED <<config, accessToken, handled, req, supplied, resp, nextCalls,
                   tokenReads, prev>>
    /\ UNCHANGED <<authVars, cryptoVars, keyVars, ctorVars>>

\* mutant: the emptiness test uses the value read first, the comparison asks
\* the supplier again
HandlerCompare_ReadsAgain ==
    /\ \E g \in Goroutines :
        /\ flight[g].pc = "compare"
        /\ LET token == PreToken(config, flight[g].req).token
               out == IF flight[g].expectedToken = EmptyString
                      THEN Reject(StatusInternalServerError, << >>)
                      ELSE IF token # GetAccessToken
                           THEN Reject(StatusUnauthorized, << >>)
                           ELSE Forward(<< >>)
           IN  flight' = Step(g, [flight[g] EXCEPT !.pc = "done",
                                                   !.next = out.next,
                                                   !.status = out.status,
                                                   !.reads = Append(@, GetAccessToken)])
    /\ UNCHANGED <<config, accessToken, handled, req, supplied, resp, nextCalls,
                   tokenReads, prev>>
    /\ UNCHANGED <<authVars, cryptoVars, keyVars, ctorVars>>

\* the rest of the handler: the two tests of expectedToken and the outcome
HandlerCompare ==
    /\ \E g \in Goroutines :
        /\ flight[g].pc = "compare"
        /\ LET out == TokenCheck(PreToken(config, flight[g].req).token,
                                 ExpectedToken(flight[g]))
           IN  flight' = Step(g, [flight[g] EXCEPT !.pc = "done",
                                                   !.next = out.next,
                                                   !.status = out.status])
    /\ UNCHANGED <<config, accessToken, handled, req, supplied, resp, nextCalls,
                   tokenReads, prev>>
    /\ UNCHANGED <<authVars, cryptoVars, keyVars, ctorVars>>

\* the handler has returned; the goroutine is free for another request
HandlerReturn ==
    /\ \E g \in Goroutines :
        /\ flight[g].pc = "done"
        /\ flight' = [flight EXCEPT ![g] = IdleFlight]
    /\ UNCHANGED <<config, accessToken, handled, req, supplied, resp, nextCalls,
                   tokenReads, prev>>
    /\ UNCHANGED <<authVars, cryptoVars, keyVars, ctorVars>>

NextConc ==
    \/ HandlerBegin
    \/ HandlerReadToken
    \/ HandlerCompare
    \/ HandlerReturn
    \/ TokenChange

-----------------------------------------------------------------------------
(* authclient: errors (errors.go). An error value is its Unwrap chain, the
   outermost error first. *)

ErrNode(type, text, code, detail) ==
    [type |-> type, text |-> text, StatusCode |-> code, detail |-> detail]

\* errors.New(text)
Sentinel(text) == ErrNode("errors.New", text, 0, "")

ErrUnauthorized      == Sentinel("authentication failed: unauthorized")
ErrBadRequest        == Sentinel("bad request: invalid parameters")
ErrNotFound          == Sentinel("endpoint not found")
ErrInternalServer    == Sentinel("internal server error")
ErrInvalidConfig     == Sentinel("invalid client configuration")
ErrInvalidPrivateKey == Sentinel("invalid private key")
ErrNetworkError      == Sentinel("network error")

\* fmt.Errorf(format, ...) with a %w verb: a new error wrapping inner; detail
\* is the text formatted in with %s or %v
Wrap(format, detail, inner) == <<ErrNode("fmt.wrapError", format, 0, detail)>> \o inner

\* fmt.Errorf without %w, or an error of another package: wraps nothing
Plain(text, code) == <<ErrNode("error", text, code, "")>>

NoError == << >>

\* NewHTTPError(statusCode, message, err); Unwrap() returns err
NewHTTPError(statusCode, message, err) ==
    <<ErrNode("*HTTPError", "HTTP", statusCode, message)>> \o err

\* errors.Is(err, target)
ErrorsIs(err, target) == \E i \in 1..Len(err) : err[i] = target

\* errors.As(err, &httpErr): does the chain hold a *HTTPError
ErrorsAsHTTPError(err) == \E i \in 1..Len(err) : err[i].type = "*HTTPError"

\* the *HTTPError errors.As finds: the first in the chain
AsHTTPError(err) ==
    err[CHOOSE i \in 1..Len(err) :
            /\ err[i].type = "*HTTPError"
            /\ \A j \in 1..(i - 1) : err[j].type # "*HTTPError"]

-----------------------------------------------------------------------------
(* authclient: what the transport and the verifier may answer *)

StatusOK == 200
StatusBadRequest == 400
StatusNotFound == 404

\* a map[string]string without entries (a nil map reads the same)
NoSecrets == [k \in {} |-> ""]

\* an answer to one request: kind "doerr" (httpClient.Do fails), "readerr"
\* (io.ReadAll fails) or "resp" (status and body arrive). json: the body
\* unmarshals into the response struct; error, challenge, success: its fields
Answer(kind, status, json, challenge, success, error) ==
    [kind |-> kind, status |-> status, json |-> json,
     challenge |-> challenge, success |-> success, error |-> error,
     secretData |-> NoSecrets]

\* the secretData maps the verifier may answer with
SecretMaps ==
    { NoSecrets,
      [k \in {"API_KEY", "OTHER"} |-> IF k = "API_KEY" THEN "a" ELSE "b"],
      [k \in {"OTHER"} |-> "b"] }

FailureStatuses == {400, 401, 403, 404, 429, 499, 500, 503, 599, 600}

\* failures every endpoint may answer with
FailureAnswers ==
    { Answer("doerr", 0, FALSE, "", FALSE, ""),
      Answer("readerr", 200, FALSE, "", FALSE, "") }
    \cup { Answer("resp", s, TRUE, "", FALSE, "denied") : s \in FailureStatuses }
    \cup { Answer("resp", s, FALSE, "", FALSE, "") : s \in {401, 503} }

\* the i-th challenge the verifier issues: all distinct
Nonce(i) == <<"n1", "n2", "n3", "n4", "n5", "n6">>[i]

\* answers of POST /challenge when n challenges were issued before
ChallengeAnswers(n) ==
    FailureAnswers
    \cup { Answer("resp", 200, FALSE, "", FALSE, ""),
           Answer("resp", 200, TRUE, "", FALSE, ""),
           Answer("resp", 200, TRUE, Nonce(n + 1), FALSE, "") }

\* answers of POST /verify
VerifyAnswers ==
    FailureAnswers
    \cup { Answer("resp", 200, FALSE, "", FALSE, ""),
           Answer("resp", 200, TRUE, "", FALSE, "Invalid signature"),
           Answer("resp", 200, TRUE, "", FALSE, "challenge expired") }
    \cup { [Answer("resp", 200, TRUE, "", TRUE, "") EXCEPT !.secretData = m] :
             m \in SecretMaps }

NoAnswer == Answer("none", 0, FALSE, "", FALSE, "")

-----------------------------------------------------------------------------
(* authclient: the client (auth.go) *)

NilKey == "nil"

DefaultRetryBackoff == 2

MaxRetriesBound == 2

RetryCounts == (0 - 1)..MaxRetriesBound

Backoffs == {1, 3}

DefaultTimeout == 30

\* maxRetries of a new client
DefaultMaxRetries == 0

HTTPSPrefix == <<"h", "t", "t", "p", "s", ":", "/", "/">>

HTTPPrefix == <<"h", "t", "t", "p", ":", "/", "/">>

LocalhostPrefix == HTTPPrefix \o <<"l", "o", "c", "a", "l", "h", "o", "s", "t">>

\* mutant: the base URL is stored as given
TrimSuffixSlash_Keep(s) == s

\* strings.TrimSuffix(s, "/")
TrimSuffixSlash(s) ==
    IF Len(s) > 0 /\ s[Len(s)] = "/" THEN SubSeq(s, 1, Len(s) - 1) ELSE s

BaseURLs ==
    { EmptyString,
      HTTPSPrefix \o <<"a">>,
      HTTPSPrefix \o <<"a", "/">>,
      HTTPSPrefix \o <<"a", "/", "/">>,
      HTTPPrefix \o <<"a">>,
      LocalhostPrefix,
      <<"a">> }

\* the ClientConfig values tried
ClientConfigs ==
    [ BaseURL : BaseURLs,
      ClientID : {"", "client-1"},
      PrivateKey : {NilKey, "key-1", "key-2"},
      HTTPClient : {"nil", "custom"},
      Timeout : {0, 5},
      SecretKeys : { << >>, <<"API_KEY">>, <<"API_KEY", "MISSING">> },
      RepoUrl : {"", "repo"},
      GrpcEndpoint : {"", "grpc"},
      IncludeRepoList : BOOLEAN,
      TunnelUrl : {""} ]

\* the configuration of the examples: the required fields only
DefaultConfig ==
    [ BaseURL |-> HTTPSPrefix \o <<"a">>, ClientID |-> "client-1",
      PrivateKey |-> "key-1", HTTPClient |-> "nil", Timeout |-> 0,
      SecretKeys |-> << >>, RepoUrl |-> "", GrpcEndpoint |-> "",
      IncludeRepoList |-> FALSE, TunnelUrl |-> "" ]

\* the ClientConfig zero value
ZeroConfig ==
    [ BaseURL |-> EmptyString, ClientID |-> "", PrivateKey |-> NilKey,
      HTTPClient |-> "nil", Timeout |-> 0, SecretKeys |-> << >>, RepoUrl |-> "",
      GrpcEndpoint |-> "", IncludeRepoList |-> FALSE, TunnelUrl |-> "" ]

\* no Client: what NewClient returns beside an error
NilClient ==
    [ baseURL |-> EmptyString, clientID |-> "", privateKey |-> NilKey,
      httpClient |-> "nil", timeout |-> 0, maxRetries |-> 0, retryBackoff |-> 0,
      secretKeys |-> << >>, repoUrl |-> "", grpcEndpoint |-> "" ]

\* mutant: a base URL that is not HTTPS (and not localhost) is refused
NewClient_RequireHTTPS(cfg) ==
    IF \/ cfg.BaseURL = EmptyString
       \/ ~HasPrefix(cfg.BaseURL, HTTPSPrefix) /\ ~HasPrefix(cfg.BaseURL, LocalhostPrefix)
    THEN [err |-> Wrap("%w: baseURL is required", "", <<ErrInvalidConfig>>),
          client |-> NilClient, warning |-> FALSE]
    ELSE IF cfg.ClientID = ""
    THEN [err |-> Wrap("%w: clientID is required", "", <<ErrInvalidConfig>>),
          client |-> NilClient, warning |-> FALSE]
    ELSE IF cfg.PrivateKey = NilKey
    THEN [err |-> Wrap("%w: privateKey is required", "", <<ErrInvalidConfig>>),
          client |-> NilClient, warning |-> FALSE]
    ELSE [err |-> NoError, warning |-> FALSE,
          client |-> [NilClient EXCEPT !.baseURL = TrimSuffixSlash(cfg.BaseURL),
                                       !.clientID = cfg.ClientID,
                                       !.privateKey = cfg.PrivateKey]]

\* NewClient: (*Client, error), and whether the non-HTTPS warning was formatted
NewClient(cfg) ==
    IF cfg.BaseURL = EmptyString
    THEN [err |-> Wrap("%w: baseURL is required", "", <<ErrInvalidConfig>>),
          client |-> NilClient, warning |-> FALSE]
    ELSE IF cfg.ClientID = ""
    THEN [err |-> Wrap("%w: clientID is required", "", <<ErrInvalidConfig>>),
          client |-> NilClient, warning |-> FALSE]
    ELSE IF cfg.PrivateKey = NilKey
    THEN [err |-> Wrap("%w: privateKey is required", "", <<ErrInvalidConfig>>),
          client |-> NilClient, warning |-> FALSE]
    ELSE LET httpClient == IF cfg.HTTPClient = "nil" THEN "new" ELSE cfg.HTTPClient
             timeout == IF cfg.Timeout = 0 THEN DefaultTimeout ELSE cfg.Timeout
         IN  [err |-> NoError,
              warning |-> /\ ~HasPrefix(cfg.BaseURL, HTTPSPrefix)
                          /\ ~HasPrefix(cfg.BaseURL, LocalhostPrefix),
              client |-> [ baseURL |-> TrimSuffixSlash(cfg.BaseURL),
                           clientID |-> cfg.ClientID,
                           privateKey |-> cfg.PrivateKey,
                           httpClient |-> httpClient,
                           timeout |-> timeout,
                           maxRetries |-> DefaultMaxRetries,
                           retryBackoff |-> DefaultRetryBackoff,
                           secretKeys |-> cfg.SecretKeys,
                           repoUrl |-> cfg.RepoUrl,
                           grpcEndpoint |-> cfg.GrpcEndpoint ]]

\* Client.handleHTTPError
handleHTTPError(statusCode, body) ==
    IF ~body.json
    THEN NewHTTPError(statusCode, "body", NoError)
    ELSE LET baseErr ==
                 CASE statusCode = StatusBadRequest -> <<ErrBadRequest>>
                   [] statusCode = StatusUnauthorized -> <<ErrUnauthorized>>
                   [] statusCode = StatusNotFound -> <<ErrNotFound>>
                   [] statusCode = StatusInternalServerError -> <<ErrInternalServer>>
                   [] OTHER -> Plain("HTTP error %d", statusCode)
         IN  NewHTTPError(statusCode, body.error, baseErr)

\* mutant: the 5xx range has no upper end
isRetryable_NoUpperEnd(err) ==
    IF ErrorsIs(err, ErrNetworkError) THEN TRUE
    ELSE IF ErrorsAsHTTPError(err)
              /\ \/ AsHTTPError(err).StatusCode >= 500
                 \/ AsHTTPError(err).StatusCode = 429
         THEN TRUE
         ELSE FALSE

\* Client.isRetryable
isRetryable(err) ==
    IF ErrorsIs(err, ErrNetworkError) THEN TRUE
    ELSE IF ErrorsAsHTTPError(err)
              /\ \/ (AsHTTPError(err).StatusCode >= 500 /\ AsHTTPError(err).StatusCode < 600)
                 \/ AsHTTPError(err).StatusCode = 429
         THEN TRUE
         ELSE FALSE

\* the part RequestChallenge, VerifySignature and Health share: send, read the
\* body, check the status, parse
Exchange(a) ==
    IF a.kind = "doerr" THEN Wrap("%w: %v", "transport", <<ErrNetworkError>>)
    ELSE IF a.kind = "readerr"
         THEN Wrap("failed to read response: %w", "", Plain("read", 0))
    ELSE IF a.status # StatusOK THEN handleHTTPError(a.status, a)
    ELSE IF ~a.json
         THEN Wrap("failed to parse response: %w", "", Plain("json", 0))
    ELSE NoError

\* Client.RequestChallenge, the transport answering a
RequestChallenge(c, a) ==
    LET err == Exchange(a) IN
    [err |-> err, Challenge |-> IF err = NoError THEN a.challenge ELSE ""]

\* ---- internal/crypto ----

\* the RSA key pairs in use: *rsa.PrivateKey and its PublicKey field
KeyPairs ==
    { [private |-> "key-1", public |-> "pub-1"],
      [private |-> "key-2", public |-> "pub-2"] }

PrivateKeys == { p.private : p \in KeyPairs }

PublicKeys == { p.public : p \in KeyPairs }

\* &privateKey.PublicKey
PublicKeyOf(privateKey) == (CHOOSE p \in KeyPairs : p.private = privateKey).public

\* sha256.Sum256([]byte(challenge)): distinct inputs give distinct digests
Sha256(data) == <<"sha256", data>>

\* a []byte: an RSA signature of a digest under a key, other bytes, or none
NoBytes == [kind |-> "none", key |-> "", hashed |-> << >>]

JunkBytes == [kind |-> "junk", key |-> "", hashed |-> << >>]

\* rsa.SignPKCS1v15(rand.Reader, privateKey, crypto.SHA256, hashed[:])
RSASign(privateKey, hashed) == [kind |-> "rsa", key |-> privateKey, hashed |-> hashed]

\* rsa.VerifyPKCS1v15(publicKey, crypto.SHA256, hashed[:], signature): nil, or
\* rsa.ErrVerification
RSAVerify(publicKey, hashed, sigBytes) ==
    IF /\ sigBytes.kind = "rsa"
       /\ sigBytes.key \in PrivateKeys
       /\ PublicKeyOf(sigBytes.key) = publicKey
       /\ sigBytes.hashed = hashed
    THEN NoError
    ELSE Plain("crypto/rsa: verification error", 0)

\* a string that may hold base64: the empty string, base64 text of some bytes,
\* or text outside the base64 alphabet
NoSignature == [text |-> "empty", bytes |-> NoBytes]

NotBase64 == [text |-> "plain", bytes |-> NoBytes]

\* base64.StdEncoding.EncodeToString(signature)
Base64Encode(bytes) == [text |-> "b64", bytes |-> bytes]

\* base64.StdEncoding.DecodeString(signatureBase64)
Base64Decode(str) ==
    IF str.text = "plain"
    THEN [err |-> Plain("illegal base64 data", 0), bytes |-> NoBytes]
    ELSE [err |-> NoError, bytes |-> str.bytes]

\* mutant: an empty challenge is signed like any other
SignChallenge_SignsEmpty(privateKey, challenge) ==
    IF privateKey = NilKey
    THEN [err |-> Plain("private key is nil", 0), sig |-> NoSignature]
    ELSE [err |-> NoError,
          sig |-> Base64Encode(RSASign(privateKey, Sha256(challenge)))]

\* mutant: the challenge is tested before the key
SignChallenge_ChallengeFirst(privateKey, challenge) ==
    IF challenge = ""
    THEN [err |-> Plain("challenge is empty", 0), sig |-> NoSignature]
    ELSE IF privateKey = NilKey
         THEN [err |-> Plain("private key is nil", 0), sig |-> NoSignature]
         ELSE [err |-> NoError,
               sig |-> Base64Encode(RSASign(privateKey, Sha256(challenge)))]

\* crypto.SignChallenge: the base64 signature of challenge under privateKey
SignChallenge(privateKey, challenge) ==
    IF privateKey = NilKey
    THEN [err |-> Plain("private key is nil", 0), sig |-> NoSignature]
    ELSE IF challenge = ""
         THEN [err |-> Plain("challenge is empty", 0), sig |-> NoSignature]
         ELSE [err |-> NoError,
               sig |-> Base64Encode(RSASign(privateKey, Sha256(challenge)))]

\* mutant: the digest of the challenge is not compared
CryptoVerifySignature_AnyChallenge(publicKey, challenge, signatureBase64) ==
    IF publicKey = NilKey THEN Plain("public key is nil", 0)
    ELSE IF challenge = "" THEN Plain("challenge is empty", 0)
    ELSE IF signatureBase64 = NoSignature THEN Plain("signature is empty", 0)
    ELSE LET d == Base64Decode(signatureBase64) IN
         IF d.err # NoError
         THEN Wrap("failed to decode signature: %w", "", d.err)
         ELSE LET e == RSAVerify(publicKey, d.bytes.hashed, d.bytes) IN
              IF e # NoError
              THEN Wrap("signature verification failed: %w", "", e)
              ELSE NoError

\* crypto.VerifySignature: nil when signatureBase64 is the signature of
\* challenge under the private key of publicKey
CryptoVerifySignature(publicKey, challenge, signatureBase64) ==
    IF publicKey = NilKey THEN Plain("public key is nil", 0)
    ELSE IF challenge = "" THEN Plain("challenge is empty", 0)
    ELSE IF signatureBase64 = NoSignature THEN Plain("signature is empty", 0)
    ELSE LET d == Base64Decode(signatureBase64) IN
         IF d.err # NoError
         THEN Wrap("failed to decode signature: %w", "", d.err)
         ELSE LET e == RSAVerify(publicKey, Sha256(challenge), d.bytes) IN
              IF e # NoError
              THEN Wrap("signature verification failed: %w", "", e)
              ELSE NoError

\* ---- authclient again ----

\* Client.signChallenge
signChallenge(c, challenge) ==
    IF c.privateKey = NilKey
    THEN [err |-> <<ErrInvalidPrivateKey>>, sig |-> NoSignature]
    ELSE LET r == SignChallenge(c.privateKey, challenge) IN
         IF r.err # NoError
         THEN [err |-> Wrap("failed to sign challenge: %w", "", r.err), sig |-> NoSignature]
         ELSE r

\* mutant: the first challenge of the call is kept and resubmitted
VerifyRequest_FirstChallenge(c, challenge, sig) ==
    LET first == CHOOSE i \in 1..Len(trace) :
                     /\ trace[i].op = "challenge" /\ trace[i].err = << >>
                     /\ \A j \in 1..(i - 1) : ~(trace[j].op = "challenge" /\ trace[j].err = << >>)
    IN  [ClientID |-> c.clientID, Challenge |-> trace[first].challenge, Signature |-> sig,
         RepoUrl |-> c.repoUrl, GrpcEndpoint |-> c.grpcEndpoint,
         IncludeRepoList |-> FALSE, TunnelUrl |-> ""]

\* the body of the POST /verify request: the VerifyRequest literal of
\* VerifySignature; the fields it does not set keep their zero values
VerifyRequest(c, challenge, sig) ==
    [ClientID |-> c.clientID, Challenge |-> challenge, Signature |-> sig,
     RepoUrl |-> c.repoUrl, GrpcEndpoint |-> c.grpcEndpoint,
     IncludeRepoList |-> FALSE, TunnelUrl |-> ""]

\* a request without a body to speak of
NoBody ==
    [ClientID |-> "", Challenge |-> "", Signature |-> NoSignature,
     RepoUrl |-> "", GrpcEndpoint |-> "", IncludeRepoList |-> FALSE, TunnelUrl |-> ""]

\* the elements of a []string
Elems(keys) == { keys[i] : i \in 1..Len(keys) }

\* mutant: the filter is not applied
FilterSecretData_Unfiltered(secretKeys, data) == data

\* the filtering of verifyResp.SecretData by c.secretKeys
FilterSecretData(secretKeys, data) ==
    IF Len(secretKeys) > 0
    THEN [k \in Elems(secretKeys) \cap DOMAIN data |-> data[k]]
    ELSE data

\* no VerifyResponse (nil)
NoResponse == [Success |-> FALSE, SecretData |-> NoSecrets]

\* mutant: the success flag of the response is not looked at
VerifySignature_NoSuccessCheck(c, challenge, sig, a) ==
    LET err == Exchange(a) IN
    IF err # NoError THEN [err |-> err, resp |-> NoResponse]
    ELSE [err |-> NoError,
          resp |-> [Success |-> TRUE,
                    SecretData |-> FilterSecretData(c.secretKeys, a.secretData)]]

\* Client.VerifySignature, the transport answering a
VerifySignature(c, challenge, sig, a) ==
    LET err == Exchange(a) IN
    IF err # NoError THEN [err |-> err, resp |-> NoResponse]
    ELSE IF ~a.success
         THEN [err |-> Wrap("%w: %s", a.error, <<ErrUnauthorized>>), resp |-> NoResponse]
         ELSE [err |-> NoError,
               resp |-> [Success |-> TRUE,
                         SecretData |-> FilterSecretData(c.secretKeys, a.secretData)]]

\* the paths of the verifier's endpoints
EndpointChallenge == <<"/", "c", "h", "a", "l", "l", "e", "n", "g", "e">>

EndpointVerify == <<"/", "v", "e", "r", "i", "f", "y">>

EndpointHealth == <<"/", "h", "e", "a", "l", "t", "h">>

\* mutant: the challenge request carries the key as well
ChallengeBody_WithKey(c) == [clientId |-> c.clientID, privateKey |-> c.privateKey]

\* the body of the POST /challenge request: map[string]string{"clientId": c.clientID}
ChallengeBody(c) == [clientId |-> c.clientID]

\* fmt.Sprintf("%s/challenge", c.baseURL)
ChallengeURL(c) == c.baseURL \o EndpointChallenge

\* fmt.Sprintf("%s/verify", c.baseURL)
VerifyURL(c) == c.baseURL \o EndpointVerify

\* fmt.Sprintf("%s/health", c.baseURL)
HealthURL(c) == c.baseURL \o EndpointHealth

\* one entry of the trace
Event(op, answer, err, challenge, backoff) ==
    [op |-> op, answer |-> answer, err |-> err, challenge |-> challenge,
     backoff |-> backoff, request |-> NoBody, method |-> "", url |-> EmptyString]

\* answers of GET /health
HealthAnswers ==
    { Answer("doerr", 0, FALSE, "", FALSE, ""),
      Answer("readerr", 200, FALSE, "", FALSE, ""),
      Answer("resp", 503, TRUE, "", FALSE, "denied"),
      Answer("resp", 200, FALSE, "", FALSE, ""),
      Answer("resp", 200, TRUE, "", FALSE, "") }

\* no Health() call yet
NoHealth ==
    [called |-> FALSE, method |-> "", url |-> EmptyString, requests |-> 0,
     err |-> NoError, Status |-> ""]

\* no Authenticate() call has returned yet
NoLast == [called |-> FALSE, ok |-> FALSE, sleeps |-> 0]

NoResult == [state |-> "none", err |-> NoError, resp |-> NoResponse]

InitAuth ==
    /\ clientConfig = DefaultConfig
    /\ client = NewClient(DefaultConfig).client
    /\ pc = "idle"
    /\ retriesLeft = 0
    /\ challengeResp = ""
    /\ signature = NoSignature
    /\ result = NoResult
    /\ issued = 0
    /\ trace = << >>
    /\ entryClient = NilClient
    /\ health = NoHealth
    /\ last = NoLast

\* the caller's *http.Client after NewClient(cfg): httpClient.Timeout = timeout
\* is assigned through the pointer the caller passed
HTTPClientAfterNewClient(cfg, obj) ==
    IF NewClient(cfg).err = NoError /\ cfg.HTTPClient = "custom"
    THEN [obj EXCEPT !.Timeout = NewClient(cfg).client.timeout]
    ELSE obj

\* the Timeout of the http.Client the requests of Client c go through: that of
\* the caller's object if c holds it, else that of the object NewClient made
EffectiveTimeout(c) ==
    IF c.httpClient = "custom" THEN httpObj.Timeout ELSE c.timeout

\* NewClient(config), for any configuration
Construct ==
    /\ pc = "new"
    /\ \E cfg \in ClientConfigs :
        LET r == NewClient(cfg) IN
        /\ clientConfig' = cfg
        /\ client' = r.client
        /\ httpObj' = HTTPClientAfterNewClient(cfg, httpObj)
        /\ IF r.err # NoError
           THEN /\ pc' = "failed"
                /\ result' = [state |-> "error", err |-> r.err, resp |-> NoResponse]
           ELSE /\ pc' = "idle"
                /\ UNCHANGED result
    /\ UNCHANGED <<retriesLeft, challengeResp, signature, issued, trace>>
    /\ UNCHANGED <<entryClient, health, last, other>>
    /\ UNCHANGED <<gateVars, cryptoVars, keyVars>>

\* NewClient called once more with the same configuration but for the HTTP
\* client and the timeout, the Client made before staying in use
ConstructAnother ==
    /\ pc = "idle"
    /\ other = NilClient
    /\ \E h \in {"nil", "custom"}, t \in {0, 5} :
        LET cfg == [clientConfig EXCEPT !.HTTPClient = h, !.Timeout = t]
            r == NewClient(cfg)
        IN  /\ other' = client
            /\ clientConfig' = cfg
            /\ client' = r.client
            /\ httpObj' = HTTPClientAfterNewClient(cfg, httpObj)
    /\ UNCHANGED <<pc, retriesLeft, challengeResp, signature, result, issued, trace>>
    /\ UNCHANGED <<entryClient, health, last>>
    /\ UNCHANGED <<gateVars, cryptoVars, keyVars>>

\* keygen.LoadPrivateKey(filename): the key of the file, or an error
LoadPrivateKeyResults ==
    { [err |-> NoError, key |-> "key-1"],
      [err |-> Wrap("failed to read private key file: %w", "", Plain("open", 0)),
       key |-> NilKey] }

\* NewClientFromFile(baseURL, clientID, privateKeyFile)
NewClientFromFile(baseURL, clientID, loaded) ==
    IF loaded.err # NoError
    THEN [err |-> Wrap("failed to load private key: %w", "", loaded.err),
          client |-> NilClient, warning |-> FALSE]
    ELSE NewClient([ZeroConfig EXCEPT !.BaseURL = baseURL, !.ClientID = clientID,
                                      !.PrivateKey = loaded.key])

\* LoadPrivateKeyFromFile(filename): a Client holding the key and nothing else
LoadPrivateKeyFromFile(loaded) ==
    IF loaded.err # NoError
    THEN [err |-> Wrap("failed to load private key: %w", "", loaded.err),
          client |-> NilClient, warning |-> FALSE]
    ELSE [err |-> NoError, warning |-> FALSE,
          client |-> [NilClient EXCEPT !.privateKey = loaded.key]]

\* a caller of NewClientFromFile
ConstructFromFile ==
    /\ pc = "new"
    /\ \E baseURL \in BaseURLs, clientID \in {"", "client-1"},
          loaded \in LoadPrivateKeyResults :
        LET r == NewClientFromFile(baseURL, clientID, loaded) IN
        /\ clientConfig' = [ZeroConfig EXCEPT !.BaseURL = baseURL,
                                              !.ClientID = clientID,
                                              !.PrivateKey = loaded.key]
        /\ client' = r.client
        /\ IF r.err # NoError
           THEN /\ pc' = "failed"
                /\ result' = [state |-> "error", err |-> r.err, resp |-> NoResponse]
           ELSE /\ pc' = "idle"
                /\ UNCHANGED result
    /\ UNCHANGED <<retriesLeft, challengeResp, signature, issued, trace>>
    /\ UNCHANGED <<entryClient, health, last>>
    /\ UNCHANGED <<gateVars, cryptoVars, keyVars, ctorVars>>

\* a caller of LoadPrivateKeyFromFile
ConstructFromKeyFile ==
    /\ pc = "new"
    /\ \E loaded \in LoadPrivateKeyResults :
        LET r == LoadPrivateKeyFromFile(loaded) IN
        /\ clientConfig' = [ZeroConfig EXCEPT !.PrivateKey = loaded.key]
        /\ client' = r.client
        /\ IF r.err # NoError
           THEN /\ pc' = "failed"
                /\ result' = [state |-> "error", err |-> r.err, resp |-> NoResponse]
           ELSE /\ pc' = "idle"
                /\ UNCHANGED result
    /\ UNCHANGED <<retriesLeft, challengeResp, signature, issued, trace>>
    /\ UNCHANGED <<entryClient, health, last>>
    /\ UNCHANGED <<gateVars, cryptoVars, keyVars, ctorVars>>

\* authenticateWithRetry on a Client without an http.Client: RequestChallenge
\* builds its request and c.httpClient.Post dereferences the nil pointer
StepChallengePanic ==
    /\ pc = "challenge"
    /\ client.httpClient = "nil"
    /\ pc' = "panic"
    /\ result' = [state |-> "panic", resp |-> NoResponse,
                  err |-> Plain("invalid memory address or nil pointer dereference", 0)]
    /\ UNCHANGED <<client, retriesLeft, challengeResp, signature, issued, trace>>
    /\ UNCHANGED <<clientConfig, entryClient, health, last>>
    /\ UNCHANGED <<gateVars, cryptoVars, keyVars, ctorVars>>

\* mutant: SetRetry forgets the endpoint as well
SetRetry_Rebase ==
    /\ pc = "idle"
    /\ \E maxRetries \in RetryCounts, backoff \in Backoffs :
        client' = [client EXCEPT !.maxRetries = maxRetries, !.retryBackoff = backoff,
                                 !.baseURL = EmptyString]
    /\ UNCHANGED <<pc, retriesLeft, challengeResp, signature, result, issued, trace>>
    /\ UNCHANGED <<clientConfig, entryClient, health, last>>
    /\ UNCHANGED <<gateVars, cryptoVars, keyVars, ctorVars>>

\* Client.SetRetry, called while no Authenticate() is running
SetRetry ==
    /\ pc = "idle"
    /\ \E maxRetries \in RetryCounts, backoff \in Backoffs :
        client' = [client EXCEPT !.maxRetries = maxRetries, !.retryBackoff = backoff]
    /\ UNCHANGED <<pc, retriesLeft, challengeResp, signature, result, issued, trace>>
    /\ UNCHANGED <<clientConfig, entryClient, health, last>>
    /\ UNCHANGED <<gateVars, cryptoVars, keyVars, ctorVars>>

\* mutant: Authenticate grants one retry more than configured
Authenticate_ExtraRetry ==
    /\ pc = "idle"
    /\ pc' = "challenge"
    /\ retriesLeft' = client.maxRetries + 1
    /\ entryClient' = client
    /\ UNCHANGED <<client, challengeResp, signature, result, issued, trace>>
    /\ UNCHANGED <<clientConfig, health, last>>
    /\ UNCHANGED <<gateVars, cryptoVars, keyVars, ctorVars>>

\* Client.Authenticate: enter authenticateWithRetry(c.maxRetries)
Authenticate ==
    /\ pc = "idle"
    /\ pc' = "challenge"
    /\ retriesLeft' = client.maxRetries
    /\ entryClient' = client
    /\ UNCHANGED <<client, challengeResp, signature, result, issued, trace>>
    /\ UNCHANGED <<clientConfig, health, last>>
    /\ UNCHANGED <<gateVars, cryptoVars, keyVars, ctorVars>>

\* mutant: one retry too many
ShouldRetry_OffByOne(left, err) == left >= 0 /\ isRetryable(err)

\* mutant: every failure is retried while retries are left
ShouldRetry_AnyError(left, err) == left > 0

\* mutant: the verify step and the challenge step each have the whole budget
ShouldRetry_TwiceBudget(left, err) == left > 0 - client.maxRetries /\ isRetryable(err)

\* retriesLeft > 0 && c.isRetryable(err)
ShouldRetry(left, err) == left > 0 /\ isRetryable(err)

\* authenticateWithRetry: c.RequestChallenge() and the branch on its error
StepChallenge ==
    /\ pc = "challenge"
    /\ client.httpClient # "nil"
    /\ \E a \in ChallengeAnswers(issued) :
        LET r == RequestChallenge(client, a) IN
        /\ trace' = Append(trace, [Event("challenge", a, r.err, r.Challenge, 0)
                                      EXCEPT !.request = ChallengeBody(client),
                                             !.method = "POST",
                                             !.url = ChallengeURL(client)])
        /\ issued' = IF r.err = NoError /\ r.Challenge # "" THEN issued + 1 ELSE issued
        /\ IF r.err # NoError
           THEN /\ UNCHANGED challengeResp
                /\ IF ShouldRetry(retriesLeft, r.err)
                   THEN pc' = "sleep" /\ UNCHANGED result
                   ELSE /\ pc' = "done"
                        /\ result' = [state |-> "error", resp |-> NoResponse,
                                      err |-> Wrap("failed to request challenge: %w", "", r.err)]
           ELSE /\ challengeResp' = r.Challenge
                /\ pc' = "sign"
                /\ UNCHANGED result
    /\ UNCHANGED <<client, retriesLeft, signature>>
    /\ UNCHANGED <<clientConfig, entryClient, health, last>>
    /\ UNCHANGED <<gateVars, cryptoVars, keyVars, ctorVars>>

\* authenticateWithRetry: c.signChallenge(challengeResp.Challenge)
StepSign ==
    /\ pc = "sign"
    /\ LET r == signChallenge(client, challengeResp) IN
        /\ trace' = Append(trace, Event("sign", NoAnswer, r.err, challengeResp, 0))
        /\ IF r.err # NoError
           THEN /\ pc' = "done"
                /\ result' = [state |-> "error", resp |-> NoResponse,
                              err |-> Wrap("failed to sign challenge: %w", "", r.err)]
                /\ UNCHANGED signature
           ELSE /\ signature' = r.sig
                /\ pc' = "verify"
                /\ UNCHANGED result
    /\ UNCHANGED <<client, retriesLeft, challengeResp, issued>>
    /\ UNCHANGED <<clientConfig, entryClient, health, last>>
    /\ UNCHANGED <<gateVars, cryptoVars, keyVars, ctorVars>>

\* authenticateWithRetry: c.VerifySignature(challenge, signature) and the
\* branch on its error
StepVerify ==
    /\ pc = "verify"
    /\ \E a \in VerifyAnswers :
        LET body == VerifyRequest(client, challengeResp, signature)
            r == VerifySignature(client, body.Challenge, body.Signature, a)
        IN
        /\ trace' = Append(trace, [Event("verify", a, r.err, body.Challenge, 0)
                                      EXCEPT !.request = body,
                                             !.method = "POST",
                                             !.url = VerifyURL(client)])
        /\ IF r.err # NoError
           THEN IF ShouldRetry(retriesLeft, r.err)
                THEN pc' = "sleep" /\ UNCHANGED result
                ELSE /\ pc' = "done"
                     /\ result' = [state |-> "error", resp |-> NoResponse,
                                   err |-> Wrap("failed to verify signature: %w", "", r.err)]
           ELSE /\ pc' = "done"
                /\ result' = [state |-> "ok", err |-> NoError, resp |-> r.resp]
    /\ UNCHANGED <<client, retriesLeft, challengeResp, signature, issued>>
    /\ UNCHANGED <<clientConfig, entryClient, health, last>>
    /\ UNCHANGED <<gateVars, cryptoVars, keyVars, ctorVars>>

\* mutant: a retry is paid for out of the configured maximum
StepSleep_SpendsBudget ==
    /\ pc = "sleep"
    /\ trace' = Append(trace, Event("sleep", NoAnswer, NoError, "", client.retryBackoff))
    /\ retriesLeft' = retriesLeft - 1
    /\ client' = [client EXCEPT !.maxRetries = client.maxRetries - 1]
    /\ pc' = "challenge"
    /\ UNCHANGED <<challengeResp, signature, result, issued>>
    /\ UNCHANGED <<clientConfig, entryClient, health, last>>
    /\ UNCHANGED <<gateVars, cryptoVars, keyVars, ctorVars>>

\* mutant: a retry does not use up the budget
StepSleep_FreeRetry ==
    /\ pc = "sleep"
    /\ Len(trace) < 8
    /\ trace' = Append(trace, Event("sleep", NoAnswer, NoError, "", client.retryBackoff))
    /\ retriesLeft' = retriesLeft
    /\ pc' = "challenge"
    /\ UNCHANGED <<client, challengeResp, signature, result, issued>>
    /\ UNCHANGED <<clientConfig, entryClient, health, last>>
    /\ UNCHANGED <<gateVars, cryptoVars, keyVars, ctorVars>>

\* mutant: the retry follows the failure at once
StepSleep_NoSleep ==
    /\ pc = "sleep"
    /\ retriesLeft' = retriesLeft - 1
    /\ pc' = "challenge"
    /\ UNCHANGED <<client, challengeResp, signature, result, issued, trace>>
    /\ UNCHANGED <<clientConfig, entryClient, health, last>>
    /\ UNCHANGED <<gateVars, cryptoVars, keyVars, ctorVars>>

\* authenticateWithRetry: time.Sleep(c.retryBackoff), then the recursive call
\* authenticateWithRetry(retriesLeft - 1)
StepSleep ==
    /\ pc = "sleep"
    /\ trace' = Append(trace, Event("sleep", NoAnswer, NoError, "", client.retryBackoff))
    /\ retriesLeft' = retriesLeft - 1
    /\ pc' = "challenge"
    /\ UNCHANGED <<client, challengeResp, signature, result, issued>>
    /\ UNCHANGED <<clientConfig, entryClient, health, last>>
    /\ UNCHANGED <<gateVars, cryptoVars, keyVars, ctorVars>>

\* Authenticate() has returned; the caller goes on
Return ==
    /\ pc = "done"
    /\ pc' = "idle"
    /\ retriesLeft' = 0
    /\ challengeResp' = ""
    /\ signature' = NoSignature
    /\ result' = NoResult
    /\ issued' = 0
    /\ trace' = << >>
    /\ entryClient' = NilClient
    /\ UNCHANGED client
    /\ UNCHANGED <<clientConfig, health, last>>
    /\ UNCHANGED <<gateVars, cryptoVars, keyVars, ctorVars>>

\* Authenticate() has returned, and how it ended is kept for the next call to
\* be compared with
ReturnNoted ==
    /\ pc = "done"
    /\ pc' = "idle"
    /\ retriesLeft' = 0
    /\ challengeResp' = ""
    /\ signature' = NoSignature
    /\ result' = NoResult
    /\ issued' = 0
    /\ trace' = << >>
    /\ entryClient' = NilClient
    /\ last' = [called |-> TRUE, ok |-> result.state = "ok",
                sleeps |-> Cardinality({ i \in 1..Len(trace) : trace[i].op = "sleep" })]
    /\ UNCHANGED client
    /\ UNCHANGED <<clientConfig, health>>
    /\ UNCHANGED <<gateVars, cryptoVars, keyVars, ctorVars>>

\* Client.SetRetry called from another goroutine while Authenticate() runs:
\* the fields are written unsynchronised. The running call reads them again
\* only at time.Sleep(c.retryBackoff), so the write is placed before such a read
SetRetryInFlight ==
    /\ pc = "sleep"
    /\ \E maxRetries \in RetryCounts, backoff \in Backoffs :
        client' = [client EXCEPT !.maxRetries = maxRetries, !.retryBackoff = backoff]
    /\ UNCHANGED <<pc, retriesLeft, challengeResp, signature, result, issued, trace>>
    /\ UNCHANGED <<clientConfig, entryClient, health, last>>
    /\ UNCHANGED <<gateVars, cryptoVars, keyVars, ctorVars>>

\* Client.Health, the transport answering a: (*HealthResponse, error)
HealthCall(c, a) ==
    LET err == Exchange(a) IN
    [err |-> err, Status |-> IF err = NoError THEN "ok" ELSE ""]

\* mutant: Health repeats its request as Authenticate does
Health_Retried ==
    /\ pc = "idle"
    /\ \E a \in HealthAnswers :
        LET r == HealthCall(client, a) IN
        health' = [called |-> TRUE, method |-> "GET", url |-> HealthURL(client),
                   requests |-> IF isRetryable(r.err) THEN 1 + client.maxRetries ELSE 1,
                   err |-> r.err, Status |-> r.Status]
    /\ UNCHANGED <<client, pc, retriesLeft, challengeResp, signature, result, issued, trace>>
    /\ UNCHANGED <<clientConfig, entryClient, last>>
    /\ UNCHANGED <<gateVars, cryptoVars, keyVars, ctorVars>>

\* Client.Health, called while no Authenticate() is running
Health ==
    /\ pc = "idle"
    /\ client.httpClient # "nil"
    /\ \E a \in HealthAnswers :
        LET r == HealthCall(client, a) IN
        health' = [called |-> TRUE, method |-> "GET", url |-> HealthURL(client),
                   requests |-> 1, err |-> r.err, Status |-> r.Status]
    /\ UNCHANGED <<client, pc, retriesLeft, challengeResp, signature, result, issued, trace>>
    /\ UNCHANGED <<clientConfig, entryClient, last>>
    /\ UNCHANGED <<gateVars, cryptoVars, keyVars, ctorVars>>

NextAuth ==
    \/ SetRetry
    \/ Authenticate
    \/ StepChallenge
    \/ StepSign
    \/ StepVerify
    \/ StepSleep
    \/ Return

\* one caller making Authenticate() call after call
NextCalls ==
    \/ SetRetry
    \/ Authenticate
    \/ StepChallenge
    \/ StepSign
    \/ StepVerify
    \/ StepSleep
    \/ ReturnNoted

\* the client used by two goroutines, one in its first Authenticate() call and
\* one calling SetRetry
NextRace ==
    \/ SetRetry
    \/ Authenticate
    \/ SetRetryInFlight
    \/ StepChallenge
    \/ StepSign
    \/ StepVerify
    \/ StepSleep

\* the client used by one caller that also asks for the verifier's health
NextHealth ==
    \/ NextAuth
    \/ Health

\* a caller that constructs a client, asks for the verifier's health and
\* authenticates, never calling SetRetry
NextClient ==
    \/ Construct
    \/ Health
    \/ Authenticate
    \/ StepChallenge
    \/ StepSign
    \/ StepVerify
    \/ Return

\* a caller that makes a client with any of the constructors and authenticates
NextCtor ==
    \/ Construct
    \/ ConstructFromFile
    \/ ConstructFromKeyFile
    \/ Authenticate
    \/ StepChallenge
    \/ StepChallengePanic
    \/ StepSign
    \/ StepVerify
    \/ Return

\* a caller that makes two clients, one after the other
NextShared ==
    \/ Construct
    \/ ConstructAnother

\* before NewClient is called
InitClient ==
    /\ clientConfig = ZeroConfig
    /\ client = NilClient
    /\ pc = "new"
    /\ retriesLeft = 0
    /\ challengeResp = ""
    /\ signature = NoSignature
    /\ result = NoResult
    /\ issued = 0
    /\ trace = << >>
    /\ entryClient = NilClient
    /\ health = NoHealth
    /\ last = NoLast

\* the gate before its first request, with one fixed configuration
GateIdle ==
    /\ config = [WhitelistPaths |-> << >>, RequireTunnel |-> FALSE]
    /\ accessToken = EmptyString
    /\ handled = FALSE
    /\ req = NoRequest
    /\ supplied = EmptyString
    /\ resp = 0
    /\ nextCalls = 0
    /\ tokenReads = << >>
    /\ prev = NoPrev
    /\ flight = [g \in Goroutines |-> IdleFlight]

-----------------------------------------------------------------------------
(* pkg/keygen *)

ErrInvalidKeySize == Sentinel("invalid key size: must be 2048 or 4096")

\* the bit sizes the generator is asked for
KeySizes == {-1, 0, 512, 1024, 2048, 3072, 4096, 8192}

\* no *rsa.PrivateKey (nil)
NoRSAKey == [present |-> FALSE, bits |-> 0]

\* mutant: only sizes below 2048 are refused
GeneratePrivateKey_AtLeast2048(bits, randOK) ==
    IF bits < 2048
    THEN [err |-> <<ErrNode("fmt.wrapError", "%w: got %d", bits, ""), ErrInvalidKeySize>>,
          key |-> NoRSAKey]
    ELSE IF ~randOK
    THEN [err |-> Wrap("failed to generate private key: %w", "", Plain("rand", 0)),
          key |-> NoRSAKey]
    ELSE [err |-> NoError, key |-> [present |-> TRUE, bits |-> bits]]

\* keygen.GeneratePrivateKey(bits); randOK: rsa.GenerateKey(rand.Reader, bits)
\* succeeds
GeneratePrivateKey(bits, randOK) ==
    IF bits # 2048 /\ bits # 4096
    THEN [err |-> <<ErrNode("fmt.wrapError", "%w: got %d", bits, ""), ErrInvalidKeySize>>,
          key |-> NoRSAKey]
    ELSE IF ~randOK
    THEN [err |-> Wrap("failed to generate private key: %w", "", Plain("rand", 0)),
          key |-> NoRSAKey]
    ELSE [err |-> NoError, key |-> [present |-> TRUE, bits |-> bits]]

\* the files of a key pair
PrivateKeyFile == "private.pem"

PublicKeyFile == "public.pem"

FileNames == {PrivateKeyFile, PublicKeyFile}

\* a file that does not exist
NoFile == [exists |-> FALSE, perm |-> "", type |-> "", bits |-> 0]

\* os.WriteFile(name, data, perm) on the file system fs: the file is created
\* with perm, or truncated keeping the permissions it has; when the file
\* cannot be opened nothing is written
WriteFile(fs, name, type, bits, perm, ok) ==
    IF ~ok
    THEN [err |-> Plain("open", 0), files |-> fs]
    ELSE [err |-> NoError,
          files |-> [fs EXCEPT ![name] =
                        [exists |-> TRUE,
                         perm |-> IF fs[name].exists THEN fs[name].perm ELSE perm,
                         type |-> type, bits |-> bits]]]

\* keygen.SavePrivateKey: PEM "PRIVATE KEY", permission 0600
SavePrivateKey(fs, name, key, ok) ==
    LET w == WriteFile(fs, name, "PRIVATE KEY", key.bits, "0600", ok) IN
    IF w.err # NoError
    THEN [err |-> Wrap("failed to write private key file: %w", "", w.err), files |-> w.files]
    ELSE w

\* keygen.SavePublicKey: PEM "PUBLIC KEY", permission 0644
SavePublicKey(fs, name, key, ok) ==
    LET w == WriteFile(fs, name, "PUBLIC KEY", key.bits, "0644", ok) IN
    IF w.err # NoError
    THEN [err |-> Wrap("failed to write public key file: %w", "", w.err), files |-> w.files]
    ELSE w

\* keygen.GenerateAndSaveKeyPair: the error, the files afterwards and the
\* number of os.WriteFile calls made
GenerateAndSaveKeyPair(fs, privateKeyFile, publicKeyFile, bits, randOK, privOK, pubOK) ==
    LET g == GeneratePrivateKey(bits, randOK) IN
    IF g.err # NoError THEN [err |-> g.err, files |-> fs, writes |-> 0]
    ELSE LET p == SavePrivateKey(fs, privateKeyFile, g.key, privOK) IN
         IF p.err # NoError THEN [err |-> p.err, files |-> p.files, writes |-> 1]
         ELSE LET q == SavePublicKey(p.files, publicKeyFile, g.key, pubOK) IN
              [err |-> q.err, files |-> q.files, writes |-> 2]

NoGenerated == [called |-> FALSE, bits |-> 0, err |-> NoError, key |-> NoRSAKey]

NoSaved == [called |-> FALSE, bits |-> 0, err |-> NoError, writes |-> 0]

\* pkg/keygen not called, no key file written
InitKeygen ==
    /\ generated = NoGenerated
    /\ saved = NoSaved
    /\ files = [n \in FileNames |-> NoFile]

\* a caller of keygen.GeneratePrivateKey
CallGeneratePrivateKey ==
    /\ \E bits \in KeySizes, randOK \in BOOLEAN :
        LET g == GeneratePrivateKey(bits, randOK) IN
        generated' = [called |-> TRUE, bits |-> bits, err |-> g.err, key |-> g.key]
    /\ UNCHANGED <<saved, files>>
    /\ UNCHANGED <<gateVars, authVars, cryptoVars, ctorVars>>

\* a caller of keygen.GenerateAndSaveKeyPair
CallGenerateAndSaveKeyPair ==
    /\ \E bits \in KeySizes, randOK \in BOOLEAN, privOK \in BOOLEAN, pubOK \in BOOLEAN :
        LET r == GenerateAndSaveKeyPair(files, PrivateKeyFile, PublicKeyFile,
                                        bits, randOK, privOK, pubOK) IN
        /\ saved' = [called |-> TRUE, bits |-> bits, err |-> r.err, writes |-> r.writes]
        /\ files' = r.files
    /\ UNCHANGED generated
    /\ UNCHANGED <<gateVars, authVars, cryptoVars, ctorVars>>

NextKeygen ==
    \/ CallGeneratePrivateKey
    \/ CallGenerateAndSaveKeyPair

\* no caller-supplied *http.Client touched, no earlier Client
InitCtor ==
    /\ httpObj = [Timeout |-> 0]
    /\ other = NilClient

\* no SignChallenge or VerifySignature call yet
NoSigned ==
    [called |-> FALSE, privateKey |-> NilKey, challenge |-> "",
     err |-> NoError, sig |-> NoSignature]

NoVerified ==
    [called |-> FALSE, publicKey |-> NilKey, challenge |-> "",
     signature |-> NoSignature, err |-> NoError]

\* internal/crypto not called
InitCrypto ==
    /\ signed = NoSigned
    /\ verified = NoVerified

\* the arguments internal/crypto is called with
CryptoChallenges == {"", "n1", "n2"}

\* a caller of crypto.SignChallenge
CallSignChallenge ==
    /\ \E privateKey \in PrivateKeys \cup {NilKey}, challenge \in CryptoChallenges :
        LET r == SignChallenge(privateKey, challenge) IN
        signed' = [called |-> TRUE, privateKey |-> privateKey, challenge |-> challenge,
                   err |-> r.err, sig |-> r.sig]
    /\ UNCHANGED verified
    /\ UNCHANGED <<gateVars, authVars, keyVars, ctorVars>>

\* a caller of crypto.VerifySignature: with the signature last made, with no
\* signature, with text that is not base64 or with base64 of other bytes
CallVerifySignature ==
    /\ \E publicKey \in PublicKeys \cup {NilKey}, challenge \in CryptoChallenges,
          signatureBase64 \in {signed.sig, NoSignature, NotBase64, Base64Encode(JunkBytes)} :
        verified' = [called |-> TRUE, publicKey |-> publicKey, challenge |-> challenge,
                     signature |-> signatureBase64,
                     err |-> CryptoVerifySignature(publicKey, challenge, signatureBase64)]
    /\ UNCHANGED signed
    /\ UNCHANGED <<gateVars, authVars, keyVars, ctorVars>>

NextCrypto ==
    \/ CallSignChallenge
    \/ CallVerifySignature

\* the gate alone, the client constructed and idle
InitGateSpec == InitGate /\ InitAuth /\ InitCrypto /\ InitKeygen /\ InitCtor

SpecGate == InitGateSpec /\ [][NextGate]_vars

\* the gate serving one request after the other
InitLiveSpec == InitLive /\ InitAuth /\ InitCrypto /\ InitKeygen /\ InitCtor

SpecLive == InitLiveSpec /\ [][NextLive]_vars

\* the gate serving requests concurrently
InitConcSpec == InitConc /\ InitAuth /\ InitCrypto /\ InitKeygen /\ InitCtor

SpecConc == InitConcSpec /\ [][NextConc]_vars

\* the client alone, used by one caller at a time
InitAuthSpec == InitAuth /\ GateIdle /\ InitCrypto /\ InitKeygen /\ InitCtor

SpecAuth == InitAuthSpec /\ [][NextAuth]_vars

\* the client from its construction on, with the defaults NewClient sets
InitClientSpec == InitClient /\ GateIdle /\ InitCrypto /\ InitKeygen /\ InitCtor

SpecClient == InitClientSpec /\ [][NextClient]_vars

\* the client alone, every network call and every sleep of a running
\* Authenticate() returning in the end
SpecAuthFair ==
    /\ InitAuthSpec /\ [][NextAuth]_vars
    /\ WF_vars(StepChallenge) /\ WF_vars(StepSign)
    /\ WF_vars(StepVerify) /\ WF_vars(StepSleep)

\* the client called again and again
SpecCalls == InitAuthSpec /\ [][NextCalls]_vars

\* the client with SetRetry called during Authenticate()
SpecRace == InitAuthSpec /\ [][NextRace]_vars

\* the client with Health() called between Authenticate() calls
SpecHealth == InitAuthSpec /\ [][NextHealth]_vars

\* the client from its construction on, by any constructor
SpecCtor == InitClientSpec /\ [][NextCtor]_vars

\* two clients constructed one after the other
SpecShared == InitClientSpec /\ [][NextShared]_vars

\* pkg/keygen alone
InitKeygenSpec == InitKeygen /\ GateIdle /\ InitAuth /\ InitCrypto /\ InitCtor

SpecKeygen == InitKeygenSpec /\ [][NextKeygen]_vars

\* internal/crypto alone
InitCryptoSpec == InitCrypto /\ GateIdle /\ InitAuth /\ InitKeygen /\ InitCtor

SpecCrypto == InitCryptoSpec /\ [][NextCrypto]_vars
-----------------------------------------------------------------------------
(* authclient: the claims *)

\* the requests of the call so far: the indices of trace that are requests
RequestIdx == { i \in 1..Len(trace) : trace[i].op \in {"challenge", "verify"} }

ChallengeIdx == { i \in 1..Len(trace) : trace[i].op = "challenge" }

VerifyIdx == { i \in 1..Len(trace) : trace[i].op = "verify" }

SleepIdx == { i \in 1..Len(trace) : trace[i].op = "sleep" }

\* the answer is a transient failure: the transport failed to send, or the
\* verifier answered 5xx or 429
TransientAnswer(a) ==
    \/ a.kind = "doerr"
    \/ a.kind = "resp" /\ a.status \in (500..599) \cup {429}

\* the answer is what a working verifier gives
GoodAnswer(e) ==
    /\ e.answer.kind = "resp" /\ e.answer.status = 200 /\ e.answer.json
    /\ IF e.op = "challenge" THEN e.answer.challenge # "" ELSE e.answer.success

\* the number of requests answered before request i
Before(i) == Cardinality({ j \in RequestIdx : j < i })

\* the verifier answered the first k requests with a transient failure and
\* every later one well
FailsFirst(k) ==
    \A i \in RequestIdx :
        IF Before(i) < k THEN TransientAnswer(trace[i].answer) ELSE GoodAnswer(trace[i])

Max0(n) == IF n < 0 THEN 0 ELSE n

\* C2 as stated: with the first k requests failing transiently and the later
\* ones answered well, Authenticate() with maxRetries = n succeeds exactly when
\* k <= n, after k+1 challenge requests; it fails after n+1 requests.
C2_RetryBudgetLiteral ==
    pc = "done" =>
        \A k \in 0..Len(trace) :
            (FailsFirst(k) /\ Cardinality(RequestIdx) >= k) =>
                /\ result.state = "ok" =>
                      /\ k <= client.maxRetries
                      /\ Cardinality(ChallengeIdx) = k + 1
                /\ result.state = "error" =>
                      /\ k > client.maxRetries
                      /\ Cardinality(RequestIdx) = client.maxRetries + 1

\* C2 amended: the same for maxRetries = n >= 0; a negative n counts as 0
\* (one attempt, no retry).
C2_RetryBudget ==
    pc = "done" =>
        \A k \in 0..Len(trace) :
            (FailsFirst(k) /\ Cardinality(RequestIdx) >= k) =>
                /\ result.state \in {"ok", "error"}
                /\ result.state = "ok" =>
                      /\ k <= Max0(client.maxRetries)
                      /\ Cardinality(ChallengeIdx) = k + 1
                /\ result.state = "error" =>
                      /\ k > Max0(client.maxRetries)
                      /\ Cardinality(RequestIdx) = Max0(client.maxRetries) + 1

C2_Witness ==
    /\ pc = "done" /\ result.state = "ok"
    /\ client.maxRetries = 2
    /\ FailsFirst(2)
    /\ \A i \in RequestIdx : Before(i) < 2 => trace[i].answer.status = 503
    /\ Cardinality(ChallengeIdx) = 3

\* C3: every verify request carries the challenge the challenge request of the
\* same attempt returned, and no challenge is submitted to /verify twice: after
\* a retried verify failure the next verify carries a newly requested challenge.
C3_FreshChallengePerVerify ==
    /\ \A i \in VerifyIdx :
          /\ i >= 3
          /\ trace[i - 2].op = "challenge" /\ trace[i - 2].err = << >>
          /\ trace[i - 1].op = "sign"
          /\ trace[i].challenge = trace[i - 2].challenge
    /\ \A i, j \in VerifyIdx : i # j => trace[i].challenge # trace[j].challenge

C3_Witness ==
    /\ Cardinality(VerifyIdx) = 3
    /\ \E i \in VerifyIdx : i < Len(trace) /\ trace[i].answer.status = 503
    /\ pc = "done" /\ result.state = "ok"

\* the failure of trace entry i is one the claim lists as not retryable: a
\* signature failure, a response decode error, an HTTP 4xx other than 429
FatalFailure(i) ==
    /\ trace[i].err # << >>
    /\ \/ trace[i].op = "sign"
       \/ /\ trace[i].op \in {"challenge", "verify"}
          /\ trace[i].answer.kind = "resp"
          /\ \/ trace[i].answer.status = 200 /\ ~trace[i].answer.json
             \/ trace[i].answer.status \in (400..499) \ {429}

\* the error Authenticate() returned is err with one message put in front
Returned(err) ==
    /\ pc = "done" /\ result.state = "error"
    /\ Len(result.err) = Len(err) + 1
    /\ \A j \in 1..Len(err) : result.err[j + 1] = err[j]

\* C4: a failure of the challenge, sign or verify step that is not retryable
\* is returned at once: no request and no sleep follows it, however many
\* retries are left.
C4_FatalReturnsAtOnce ==
    \A i \in 1..Len(trace) :
        FatalFailure(i) => (i = Len(trace) /\ Returned(trace[i].err))

C4_Witness ==
    /\ Len(trace) = 3 /\ FatalFailure(3)
    /\ trace[3].op = "verify" /\ trace[3].answer.status = 404
    /\ retriesLeft = 2
    /\ pc = "done"

\* the returned error carries the text
Carries(err, text) == \E j \in 1..Len(err) : err[j].detail = text

IsUnauthorized(err) ==
    \E j \in 1..Len(err) : err[j].text = "authentication failed: unauthorized"

\* the verifier answered verify request i with 200 and success = false
Refused(i) ==
    /\ trace[i].op = "verify"
    /\ trace[i].answer.kind = "resp" /\ trace[i].answer.status = 200
    /\ trace[i].answer.json /\ ~trace[i].answer.success

\* C5: when the verifier answers the verify request with 200 and success=false,
\* Authenticate() fails with an Unauthorized error carrying the server's error
\* string; nothing follows the refusal, so after one challenge request and one
\* verify request when the refusal is the first answer to a verify request of
\* a call whose challenge request succeeded, whatever maxRetries is.
C5_RefusalIsFinal ==
    \A i \in 1..Len(trace) :
        Refused(i) =>
            /\ i = Len(trace)
            /\ pc = "done" /\ result.state = "error"
            /\ IsUnauthorized(result.err)
            /\ Carries(result.err, trace[i].answer.error)
            /\ i = 3 => (Cardinality(ChallengeIdx) = 1 /\ Cardinality(VerifyIdx) = 1
                         /\ SleepIdx = {})

C5_Witness ==
    /\ Len(trace) = 3 /\ Refused(3)
    /\ trace[3].answer.error = "challenge expired"
    /\ client.maxRetries = 2 /\ retriesLeft = 2
    /\ pc = "done"
    /\ Carries(result.err, "challenge expired")

\* what the claim calls a NetworkError: the request could not be sent
NetworkFailure(e) == e.op \in {"challenge", "verify"} /\ e.answer.kind = "doerr"

\* what the claim calls an HTTPError of status s: the verifier answered s # 200
HTTPFailure(e, statuses) ==
    /\ e.op \in {"challenge", "verify"}
    /\ e.answer.kind = "resp" /\ e.answer.status # 200
    /\ e.answer.status \in statuses

\* C6: an error is classified retryable if and only if it is a NetworkError or
\* an HTTPError of status 500..599 or 429; every other error (HTTP 400, 401,
\* 403, 404, decode errors, sign errors among them) is not.
C6_RetryableClassification ==
    \A i \in 1..Len(trace) :
        trace[i].err # << >> =>
            (isRetryable(trace[i].err) <=>
                \/ NetworkFailure(trace[i])
                \/ HTTPFailure(trace[i], 500..599)
                \/ HTTPFailure(trace[i], {429}))

C6_Witness ==
    /\ Len(trace) >= 4
    /\ HTTPFailure(trace[1], {599}) /\ isRetryable(trace[1].err)
    /\ trace[2].op = "sleep"
    /\ HTTPFailure(trace[Len(trace)], {600}) /\ ~isRetryable(trace[Len(trace)].err)
    /\ pc = "done" /\ retriesLeft > 0

-----------------------------------------------------------------------------
(* authmiddleware: the claims *)

\* the request's own properties, stated without the handler's helpers
IsOptions == req.Method = "OPTIONS"

\* some whitelist entry is the path or a leading part of it
OnWhitelistedPath ==
    \E i \in 1..Len(config.WhitelistPaths) :
        \E k \in 0..Len(req.Path) :
            config.WhitelistPaths[i] = [j \in 1..k |-> req.Path[j]]

\* the marker header occurs in the request, whatever its value
MarkerPresent == Len(req.Header["Cloudflare-Cdn-Loop"]) > 0

\* the marker header occurs with a non-empty first value
MarkerNonEmpty ==
    /\ Len(req.Header["Cloudflare-Cdn-Loop"]) > 0
    /\ req.Header["Cloudflare-Cdn-Loop"][1] # << >>

AuthValue ==
    IF Len(req.Header["Authorization"]) > 0 THEN req.Header["Authorization"][1] ELSE << >>

\* the Authorization value is "Bearer" + " " + t
IsBearerOf(t) == AuthValue = <<"B", "e", "a", "r", "e", "r", " ">> \o t

WellFormedBearer == \E k \in 0..Len(AuthValue) : IsBearerOf(SubSeq(AuthValue, Len(AuthValue) - k + 1, Len(AuthValue)))

Forwarded == nextCalls = 1 /\ resp = 0

Gated == handled /\ ~IsOptions /\ ~OnWhitelistedPath

PassesOrigin == ~config.RequireTunnel \/ MarkerNonEmpty

\* C8: when the supplier returns the empty string, a gated request that passes
\* the origin check and carries a well-formed "Bearer <t>" header gets 500 and
\* is not forwarded, for every t including the empty one.
C8_SupplierEmptyIs500 ==
    (Gated /\ PassesOrigin /\ WellFormedBearer /\ supplied = << >>) =>
        (resp = 500 /\ nextCalls = 0)

C8_Witness ==
    /\ Gated /\ PassesOrigin /\ supplied = << >>
    /\ IsBearerOf(<< >>)
    /\ resp = 500

\* C9: an OPTIONS request is always forwarded, whatever the path, whitelist,
\* RequireTunnel, headers and supplier value, and the supplier is not consulted.
C9_OptionsAlwaysForwarded ==
    (handled /\ IsOptions) => (Forwarded /\ tokenReads = << >>)

C9_Witness ==
    /\ handled /\ IsOptions /\ ~OnWhitelistedPath
    /\ config.RequireTunnel /\ ~MarkerPresent
    /\ Len(req.Header["Authorization"]) = 0
    /\ supplied = << >>
    /\ Forwarded

\* C10: a request whose path equals or starts with a whitelist entry is
\* forwarded unconditionally: without Authorization header, without the marker
\* under RequireTunnel, and with an empty supplier value.
C10_WhitelistedForwarded ==
    (handled /\ OnWhitelistedPath) => Forwarded

C10_Witness ==
    /\ handled /\ ~IsOptions /\ OnWhitelistedPath
    /\ \A i \in 1..Len(config.WhitelistPaths) : config.WhitelistPaths[i] # req.Path
    /\ config.RequireTunnel /\ ~MarkerPresent
    /\ Len(req.Header["Authorization"]) = 0
    /\ supplied = << >>
    /\ Forwarded

\* the Authorization header occurs in the request, whatever its value
AuthPresent == Len(req.Header["Authorization"]) > 0

\* the number of single spaces in s
Spaces(s) == Cardinality({ i \in 1..Len(s) : s[i] = " " })

\* the Authorization value read literally as "exactly two space-separated
\* parts, the first being Bearer": one space in all, after the word Bearer
TwoPartBearer ==
    /\ Spaces(AuthValue) = 1
    /\ Len(AuthValue) >= 7
    /\ SubSeq(AuthValue, 1, 7) = <<"B", "e", "a", "r", "e", "r", " ">>

\* C11 as stated: a gated request that passes the origin check and whose
\* Authorization header is present but does not consist of exactly two
\* space-separated parts, the first being Bearer, gets 401 whatever the
\* supplier returns.
C11_NotTwoPartsIs401 ==
    (Gated /\ PassesOrigin /\ AuthPresent /\ ~TwoPartBearer) =>
        (resp = 401 /\ nextCalls = 0)

\* C11 amended: the value is cut at its first space only; a gated request that
\* passes the origin check and whose Authorization value is not the word Bearer,
\* one space and a rest (which may itself hold spaces) gets 401 whatever the
\* supplier returns, and the supplier is not asked.
C11_MalformedIs401 ==
    (Gated /\ PassesOrigin /\ AuthPresent /\ ~WellFormedBearer) =>
        (resp = 401 /\ nextCalls = 0 /\ tokenReads = << >>)

C11_Witness ==
    /\ Gated /\ PassesOrigin /\ AuthPresent
    /\ AuthValue = <<"b", "e", "a", "r", "e", "r", " ", "t", "1">>
    /\ supplied = <<"t", "1">>
    /\ resp = 401 /\ nextCalls = 0

\* C12: a gated request that passes the origin check and has no Authorization
\* header gets 401 even when the supplier returns the empty string: the
\* missing-header rule is decided first and the supplier is not consulted.
C12_MissingHeaderBeforeSupplier ==
    (Gated /\ PassesOrigin /\ ~AuthPresent) =>
        (resp = 401 /\ nextCalls = 0 /\ tokenReads = << >>)

C12_Witness ==
    /\ Gated /\ PassesOrigin /\ ~AuthPresent
    /\ config.RequireTunnel
    /\ supplied = << >>
    /\ resp = 401 /\ nextCalls = 0 /\ tokenReads = << >>

\* C14: every request has exactly one outcome: the next handler ran once and
\* the gate wrote no response, or the gate wrote 401, 403 or 500 and the next
\* handler did not run.
C14_ExactlyOneOutcome ==
    handled =>
        \/ nextCalls = 1 /\ resp = 0
        \/ nextCalls = 0 /\ resp \in {401, 403, 500}

C14_Witness ==
    /\ handled /\ Gated /\ PassesOrigin /\ WellFormedBearer
    /\ supplied # << >> /\ ~IsBearerOf(supplied)
    /\ nextCalls = 0 /\ resp = 401

-----------------------------------------------------------------------------
(* authmiddleware: the claims about successive and concurrent requests *)

\* C13: the supplier is read at each evaluation and its value never kept: when
\* its value differs from the one it had at the request before, a gated request
\* bearing the old value gets 401 and one bearing the new value is forwarded,
\* and a request that got 500 while the supplier was empty is forwarded once
\* the supplier returns the token it bears.
C13_SupplierReadEachRequest ==
    (prev.handled /\ Gated /\ PassesOrigin /\ prev.supplied # supplied) =>
        /\ WellFormedBearer => tokenReads = <<supplied>>
        /\ (supplied # << >> /\ IsBearerOf(prev.supplied)) => (resp = 401 /\ nextCalls = 0)
        /\ (supplied # << >> /\ IsBearerOf(supplied)) => Forwarded
        /\ (prev.supplied = << >> /\ prev.req = req /\ IsBearerOf(supplied)) =>
               (prev.resp = 500 /\ prev.nextCalls = 0 /\ Forwarded)

C13_Witness ==
    /\ prev.handled /\ Gated /\ PassesOrigin
    /\ prev.req = req
    /\ prev.supplied = <<"t", "1">> /\ prev.nextCalls = 1 /\ prev.resp = 0
    /\ supplied = <<"t", " ", "1">>
    /\ IsBearerOf(<<"t", "1">>)
    /\ resp = 401 /\ nextCalls = 0

\* the decision of a request evaluated alone while the supplier returns tok
Alone(cfg, tok, r) == Middleware(cfg, tok, r)

\* C15: under every interleaving of concurrently served requests, a handler
\* step writes nothing that is shared (the configuration, the supplier's
\* value), and each request gets the decision it would get alone against the
\* token value the supplier returned to it.
C15_ConcurrentAsAlone ==
    /\ [](\A g \in Goroutines :
            flight[g].pc = "done" =>
                LET alone == Alone(config, flight[g].expectedToken, flight[g].req) IN
                /\ flight[g].next = alone.next
                /\ flight[g].status = alone.status
                /\ flight[g].reads = alone.reads)
    /\ [][flight' # flight => (config' = config /\ accessToken' = accessToken)]_vars

C15_Witness ==
    /\ flight[1].pc = "done" /\ flight[2].pc = "done"
    /\ flight[1].overlapped /\ flight[2].overlapped
    /\ flight[1].req = flight[2].req
    /\ flight[1].reads = << <<"t", "1">> >>
    /\ flight[2].reads = << <<"t", " ", "1">> >>
    /\ flight[1].next = 1 /\ flight[1].status = 0
    /\ flight[2].next = 0 /\ flight[2].status = 401

-----------------------------------------------------------------------------
(* authclient: the claims about construction and the verify exchange *)

\* C16: NewClient fails, with an InvalidConfig error, if and only if the base
\* URL is empty, the client ID is empty or the private key is absent; a base
\* URL that is not HTTPS never makes it fail.
C16_InvalidConfigIff ==
    pc # "new" =>
        /\ pc = "failed" <=>
              \/ clientConfig.BaseURL = << >>
              \/ clientConfig.ClientID = ""
              \/ clientConfig.PrivateKey = "nil"
        /\ pc = "failed" =>
              /\ result.state = "error"
              /\ \E i \in 1..Len(result.err) :
                     result.err[i].text = "invalid client configuration"

C16_Witness ==
    /\ pc = "idle"
    /\ clientConfig.BaseURL = <<"h", "t", "t", "p", ":", "/", "/", "a">>
    /\ client.clientID = clientConfig.ClientID
    /\ client.baseURL = clientConfig.BaseURL

\* C17: on a client on which SetRetry was never called, Authenticate() issues
\* exactly one challenge request and at most one verify request, never sleeps,
\* and returns the first failure even when it is retryable.
C17_NoRetryByDefault ==
    /\ pc # "sleep" /\ SleepIdx = {}
    /\ Cardinality(ChallengeIdx) <= 1
    /\ Cardinality(VerifyIdx) <= 1
    /\ pc = "done" => Cardinality(ChallengeIdx) = 1
    /\ \A i \in 1..Len(trace) :
           trace[i].err # << >> => (i = Len(trace) /\ Returned(trace[i].err))

C17_Witness ==
    /\ pc = "done" /\ result.state = "error"
    /\ Len(trace) = 3
    /\ trace[3].op = "verify" /\ trace[3].answer.status = 503
    /\ isRetryable(trace[3].err)
    /\ Returned(trace[3].err)

\* the secret map the verifier sent with the last answer
ServerSecrets == trace[Len(trace)].answer.secretData

\* the configured filter, as a set
FilterKeys == { clientConfig.SecretKeys[i] : i \in 1..Len(clientConfig.SecretKeys) }

\* C18: after a successful verify with a non-empty filter K and the server's
\* map M, SecretData has exactly the keys of K that M has, each with M's
\* value, keys of K missing from M being no error; with an empty filter
\* SecretData is M.
C18_SecretFilter ==
    (pc = "done" /\ result.state = "ok") =>
        IF FilterKeys # {}
        THEN /\ DOMAIN result.resp.SecretData = FilterKeys \cap DOMAIN ServerSecrets
             /\ \A k \in DOMAIN result.resp.SecretData :
                    result.resp.SecretData[k] = ServerSecrets[k]
        ELSE result.resp.SecretData = ServerSecrets

C18_Witness ==
    /\ pc = "done" /\ result.state = "ok"
    /\ FilterKeys = {"API_KEY", "MISSING"}
    /\ DOMAIN ServerSecrets = {"API_KEY", "OTHER"}
    /\ DOMAIN result.resp.SecretData = {"API_KEY"}
    /\ result.resp.SecretData["API_KEY"] = "a"

\* C19 as stated: every verify request carries the client identifier, the
\* challenge and the signature, the configured repository URL and RPC endpoint
\* hint, and the includeRepoList flag whenever IncludeRepoList was configured.
C19_VerifyRequestFields ==
    \A i \in VerifyIdx :
        /\ trace[i].request.ClientID = clientConfig.ClientID
        /\ trace[i].request.Challenge = trace[i - 2].challenge
        /\ trace[i].request.Signature =
               SignChallenge(clientConfig.PrivateKey, trace[i].request.Challenge).sig
        /\ trace[i].request.RepoUrl = clientConfig.RepoUrl
        /\ trace[i].request.GrpcEndpoint = clientConfig.GrpcEndpoint
        /\ clientConfig.IncludeRepoList => trace[i].request.IncludeRepoList

\* the sentinel errors.Is finds in err, by its text
HasKind(err, text) == \E j \in 1..Len(err) : err[j].text = text

\* the error kind a status maps to
KindOfStatus(status) ==
    CASE status = 400 -> "bad request: invalid parameters"
      [] status = 401 -> "authentication failed: unauthorized"
      [] status = 404 -> "endpoint not found"
      [] status = 500 -> "internal server error"
      [] OTHER -> "HTTP"

\* C20 as stated: for every non-200 response the kind of the returned error is
\* fixed by the status alone, whatever the body: 400 BadRequest, 401
\* Unauthorized, 404 NotFound, 500 InternalServer, any other status a generic
\* HTTP error carrying the status.
C20_KindByStatusAlone ==
    \A i \in RequestIdx :
        (trace[i].answer.kind = "resp" /\ trace[i].answer.status # 200) =>
            /\ \E j \in 1..Len(trace[i].err) :
                   /\ trace[i].err[j].type = "*HTTPError"
                   /\ trace[i].err[j].StatusCode = trace[i].answer.status
            /\ HasKind(trace[i].err, KindOfStatus(trace[i].answer.status))

-----------------------------------------------------------------------------
(* internal/crypto: the claims *)

\* the signature verified is the one the last successful SignChallenge made
VerifiedSigned ==
    /\ verified.called /\ signed.called
    /\ signed.err = NoError
    /\ verified.signature = signed.sig

IsEmptyInput(err) == err = Plain("challenge is empty", 0)

IsInvalidKey(err) ==
    \/ err = Plain("private key is nil", 0)
    \/ err = Plain("public key is nil", 0)

\* C22 as stated: the empty-input error whenever the challenge is empty, the
\* invalid-key error whenever the key is absent, whatever the other arguments,
\* both at once included.
C22_EmptyAndKeyErrors ==
    /\ signed.called =>
          /\ signed.challenge = "" => IsEmptyInput(signed.err)
          /\ signed.privateKey = NilKey => IsInvalidKey(signed.err)
    /\ verified.called =>
          /\ verified.challenge = "" => IsEmptyInput(verified.err)
          /\ verified.publicKey = NilKey => IsInvalidKey(verified.err)

\* C22: SignChallenge and VerifySignature fail with the invalid-key error
\* whenever the key is absent, whatever the other arguments, and with the
\* empty-input error whenever the challenge is empty and the key is present;
\* in both cases no signature is returned and verification does not succeed.
C22_KeyErrorFirst ==
    /\ signed.called =>
          /\ signed.privateKey = NilKey => IsInvalidKey(signed.err)
          /\ (signed.challenge = "" /\ signed.privateKey # NilKey)
                => IsEmptyInput(signed.err)
          /\ (signed.challenge = "" \/ signed.privateKey = NilKey)
                => signed.sig = NoSignature
    /\ verified.called =>
          /\ verified.publicKey = NilKey => IsInvalidKey(verified.err)
          /\ (verified.challenge = "" /\ verified.publicKey # NilKey)
                => IsEmptyInput(verified.err)

C22_Witness ==
    /\ signed.called /\ signed.privateKey = NilKey /\ signed.challenge = ""
    /\ signed.err = Plain("private key is nil", 0)
    /\ verified.called /\ verified.publicKey = NilKey /\ verified.challenge = ""
    /\ verified.err = Plain("public key is nil", 0)

-----------------------------------------------------------------------------
(* authclient: SetRetry, Health and successive calls *)

\* an Authenticate() call is running or has just computed its result
InFlight == pc \in {"challenge", "sign", "verify", "sleep", "done"}

\* the retries left to the running call are those configured when it was
\* entered, less the retries made
RetriesLeftAsEntered ==
    InFlight => retriesLeft = entryClient.maxRetries - Cardinality(SleepIdx)

\* every sleep of the running call lasted the backoff configured when it was
\* entered
BackoffAsEntered ==
    InFlight => \A i \in SleepIdx : trace[i].backoff = entryClient.retryBackoff

\* C23 as stated: a SetRetry that takes effect while Authenticate() is in
\* flight changes neither the retries remaining to that call nor the backoff
\* it sleeps before its later retries.
C23_SetRetryNotRetroactive ==
    /\ RetriesLeftAsEntered
    /\ BackoffAsEntered

\* C24: Health() issues exactly one GET to <base URL>/health whatever the
\* retry policy and whatever the answer, and a Health() call leaves every
\* field of the client and everything an Authenticate() call starts from as it
\* was, so that the Authenticate() calls after it are those without it.
C24_HealthOneGetNoEffect ==
    /\ [](health.called =>
             /\ health.requests = 1
             /\ health.method = "GET"
             /\ health.url = client.baseURL \o EndpointHealth)
    /\ [][health' # health =>
             /\ client' = client /\ clientConfig' = clientConfig
             /\ pc' = pc /\ retriesLeft' = retriesLeft
             /\ challengeResp' = challengeResp /\ signature' = signature
             /\ result' = result /\ trace' = trace]_vars

C24_Witness ==
    /\ health.called /\ ErrorsIs(health.err, ErrNetworkError)
    /\ client.maxRetries = 2
    /\ pc = "done" /\ result.state = "ok"
    /\ Cardinality(SleepIdx) = 2

\* C25: every Authenticate() call starts at the challenge step with the
\* configured maximum as its retry budget and nothing kept of the calls
\* before it, however they ended, and the client's fields are the same during
\* and after the call as when it was entered.
C25_CallsIndependent ==
    /\ [](InFlight => client = entryClient)
    /\ [][(pc = "idle" /\ pc' # "idle") =>
             /\ pc' = "challenge"
             /\ retriesLeft' = client.maxRetries
             /\ trace' = << >>
             /\ challengeResp' = "" /\ signature' = NoSignature
             /\ result' = NoResult]_vars
    /\ [][(pc = "done" /\ pc' # "done") =>
             /\ pc' = "idle"
             /\ client' = entryClient]_vars

C25_Witness ==
    /\ last.called /\ ~last.ok /\ last.sleeps = 2
    /\ pc = "challenge" /\ trace = << >>
    /\ retriesLeft = 2 /\ client.maxRetries = 2

\* the event is a request that failed with an error Authenticate() retries
RetryableFailure(e) ==
    /\ e.op \in {"challenge", "verify"}
    /\ e.err # NoError
    /\ isRetryable(e.err)

\* C26: within one Authenticate() call a verify request comes only right after
\* a successful sign that comes right after a successful challenge request;
\* every challenge request but the first comes right after exactly one sleep
\* of the configured backoff, which comes right after a retryable failure;
\* a failure is followed by nothing but such a sleep, the final failure by
\* nothing; and a successful verify is the last thing the call does.
C26_StepsOrdered ==
    /\ \A i \in 1..Len(trace) :
          /\ trace[i].op = "verify" =>
                /\ i >= 3
                /\ trace[i - 1].op = "sign" /\ trace[i - 1].err = NoError
                /\ trace[i - 2].op = "challenge" /\ trace[i - 2].err = NoError
          /\ trace[i].op = "sign" =>
                /\ i >= 2
                /\ trace[i - 1].op = "challenge" /\ trace[i - 1].err = NoError
          /\ trace[i].op = "challenge" =>
                \/ i = 1
                \/ trace[i - 1].op = "sleep"
          /\ trace[i].op = "sleep" =>
                /\ i >= 2
                /\ RetryableFailure(trace[i - 1])
                /\ trace[i].backoff = client.retryBackoff
          /\ (trace[i].err # NoError /\ i < Len(trace)) => trace[i + 1].op = "sleep"
          /\ (trace[i].op = "verify" /\ trace[i].err = NoError) =>
                i = Len(trace) /\ pc = "done"
    /\ pc = "done" => trace[Len(trace)].op # "sleep"
    /\ (Len(trace) > 0 /\ trace[Len(trace)].op = "sleep") => pc = "challenge"

C26_Witness ==
    /\ pc = "done" /\ result.state = "ok"
    /\ Len(trace) = 9
    /\ trace[1].op = "challenge" /\ trace[1].err # NoError
    /\ trace[2].op = "sleep"
    /\ trace[5].op = "verify" /\ trace[5].err # NoError
    /\ trace[6].op = "sleep"
    /\ trace[9].op = "verify" /\ trace[9].err = NoError

\* the verifier rejected the verify request because the challenge had expired
ExpiredRejection(e) ==
    /\ e.op = "verify"
    /\ e.answer.error = "challenge expired"

\* C27 as stated: when the verifier rejects a verify request because the
\* challenge has expired and retries remain, Authenticate() does not return
\* that failure but goes on to a fresh challenge.
C27_ExpiredChallengeRefetched ==
    (/\ pc = "done"
     /\ Len(trace) > 0
     /\ ExpiredRejection(trace[Len(trace)])) => retriesLeft <= 0

\* the client with each of the private keys in its place
WithAnyKey(c) == { [c EXCEPT !.privateKey = k] : k \in PrivateKeys }

\* C28: every challenge request is a POST to <base URL>/challenge whose body
\* holds the client identifier and nothing else, every health request a GET
\* to <base URL>/health, and both are the same whichever private key the
\* client holds; every verify request holds the client identifier, the
\* challenge received, the signature made of it and the configured repository
\* URL and RPC endpoint, and nothing of the key but that signature.
C28_KeyNeverSent ==
    /\ \A i \in ChallengeIdx : \A c \in WithAnyKey(client) :
          /\ trace[i].method = "POST"
          /\ trace[i].url = ChallengeURL(c)
          /\ trace[i].request = ChallengeBody(c)
          /\ DOMAIN trace[i].request = {"clientId"}
          /\ trace[i].request.clientId = clientConfig.ClientID
    /\ health.called => \A c \in WithAnyKey(client) :
          /\ health.method = "GET"
          /\ health.url = HealthURL(c)
    /\ \A i \in VerifyIdx : \A c \in WithAnyKey(client) :
          /\ trace[i].method = "POST"
          /\ trace[i].url = VerifyURL(c)
          /\ trace[i].request =
                 [ClientID |-> clientConfig.ClientID,
                  Challenge |-> trace[i - 2].challenge,
                  Signature |-> SignChallenge(clientConfig.PrivateKey,
                                              trace[i - 2].challenge).sig,
                  RepoUrl |-> clientConfig.RepoUrl,
                  GrpcEndpoint |-> clientConfig.GrpcEndpoint,
                  IncludeRepoList |-> FALSE,
                  TunnelUrl |-> ""]
          /\ \A f \in {"ClientID", "Challenge", "RepoUrl", "GrpcEndpoint", "TunnelUrl"} :
                trace[i].request[f] \notin PrivateKeys

C28_Witness ==
    /\ client.privateKey = "key-2"
    /\ health.called
    /\ Len(trace) = 3
    /\ trace[1].op = "challenge" /\ trace[1].request = [clientId |-> "client-1"]
    /\ trace[3].op = "verify"

\* the string ends with the separator
EndsWithSlash(s) == Len(s) > 0 /\ s[Len(s)] = "/"

\* a client was constructed
Constructed == pc \notin {"new", "failed"}

\* C29 as stated: after successful construction the stored base endpoint has
\* no trailing '/', for every accepted base URL, and normalizing it again
\* changes nothing.
C29_NoTrailingSlash ==
    Constructed =>
        /\ ~EndsWithSlash(client.baseURL)
        /\ TrimSuffixSlash(client.baseURL) = client.baseURL

\* C29: after successful construction the stored base endpoint is the
\* configured base URL without its last character if that is '/', and
\* unchanged otherwise; when the configured base URL ends in at most one '/'
\* the stored endpoint has no trailing '/' and normalizing it again changes
\* nothing; request URLs are the stored endpoint followed by the path.
C29_OneSlashTrimmed ==
    Constructed =>
        /\ IF EndsWithSlash(clientConfig.BaseURL)
           THEN clientConfig.BaseURL = client.baseURL \o <<"/">>
           ELSE clientConfig.BaseURL = client.baseURL
        /\ (\/ ~EndsWithSlash(clientConfig.BaseURL)
            \/ ~EndsWithSlash(SubSeq(clientConfig.BaseURL, 1, Len(clientConfig.BaseURL) - 1)))
              => /\ ~EndsWithSlash(client.baseURL)
                 /\ TrimSuffixSlash(client.baseURL) = client.baseURL
        /\ \A i \in ChallengeIdx : trace[i].url = client.baseURL \o EndpointChallenge
        /\ \A i \in VerifyIdx : trace[i].url = client.baseURL \o EndpointVerify

C29_Witness ==
    /\ clientConfig.BaseURL = HTTPSPrefix \o <<"a", "/", "/">>
    /\ client.baseURL = HTTPSPrefix \o <<"a", "/">>
    /\ Len(trace) > 0
    /\ trace[1].url = HTTPSPrefix \o <<"a", "/">> \o EndpointChallenge

\* C30 as stated: the outcome of RequestChallenge is a challenge only for
\* status 200 with a decodable body, a NetworkError for any transport failure,
\* a failure while reading the body included, an HTTPError carrying the status
\* for any other status, a decode error for a malformed body; every transport
\* failure is retryable.
C30_ChallengeOutcomes ==
    \A i \in ChallengeIdx :
        LET a == trace[i].answer
            err == trace[i].err
        IN  /\ err = NoError <=> (a.kind = "resp" /\ a.status = StatusOK /\ a.json)
            /\ a.kind \in {"doerr", "readerr"} =>
                  /\ ErrorsIs(err, ErrNetworkError)
                  /\ isRetryable(err)
            /\ (a.kind = "resp" /\ a.status # StatusOK) =>
                  /\ ErrorsAsHTTPError(err)
                  /\ AsHTTPError(err).StatusCode = a.status
                  /\ ~ErrorsIs(err, ErrNetworkError)
            /\ (a.kind = "resp" /\ a.status = StatusOK /\ ~a.json) =>
                  /\ err = Wrap("failed to parse response: %w", "", Plain("json", 0))

-----------------------------------------------------------------------------
(* authclient: what the operations leave alone *)

\* C31: no step of SetRetry, Authenticate (RequestChallenge, signing,
\* VerifySignature, the backoff sleep) or Health changes the client's base
\* URL, client ID, private key or secret-key filter; the only steps that
\* change the client at all are SetRetry's, and they change nothing but
\* maxRetries and retryBackoff.
C31_FieldsImmutable ==
    [][/\ client'.baseURL = client.baseURL
       /\ client'.clientID = client.clientID
       /\ client'.privateKey = client.privateKey
       /\ client'.secretKeys = client.secretKeys
       /\ client' # client =>
             /\ pc = "idle" /\ pc' = "idle" /\ health' = health
             /\ client' = [client EXCEPT !.maxRetries = client'.maxRetries,
                                         !.retryBackoff = client'.retryBackoff]]_vars

C31_Witness ==
    /\ client.maxRetries = 2 /\ client.retryBackoff = 3
    /\ health.called
    /\ pc = "done" /\ result.state = "ok"
    /\ Cardinality(SleepIdx) = 1
    /\ client.baseURL = HTTPSPrefix \o <<"a">>
    /\ client.clientID = "client-1" /\ client.privateKey = "key-1"

-----------------------------------------------------------------------------
(* pkg/keygen: the claims *)

ValidKeySize(bits) == bits = 2048 \/ bits = 4096

\* C32: GeneratePrivateKey returns a key only for bits = 2048 or 4096, of that
\* size, and fails with the invalid-key-size error for every other value;
\* GenerateAndSaveKeyPair with an invalid size fails with that error having
\* made no write and leaving every file as it was.
C32_KeySizes ==
    /\ [](generated.called =>
             /\ generated.key.present =>
                   /\ ValidKeySize(generated.bits)
                   /\ generated.err = NoError
                   /\ generated.key.bits = generated.bits
             /\ ~ValidKeySize(generated.bits) =>
                   /\ ErrorsIs(generated.err, ErrInvalidKeySize)
                   /\ ~generated.key.present)
    /\ []((saved.called /\ ~ValidKeySize(saved.bits)) =>
             /\ ErrorsIs(saved.err, ErrInvalidKeySize)
             /\ saved.writes = 0)
    /\ [][(~ValidKeySize(saved'.bits) \/ saved'.writes = 0) => files' = files]_vars

C32_Witness ==
    /\ generated.called /\ generated.bits = 3072
    /\ ErrorsIs(generated.err, ErrInvalidKeySize)
    /\ saved.called /\ saved.bits = 1024
    /\ ErrorsIs(saved.err, ErrInvalidKeySize)
    /\ files[PrivateKeyFile].exists /\ files[PrivateKeyFile].bits = 4096
    /\ ~files[PublicKeyFile].exists

-----------------------------------------------------------------------------
(* authclient: the retry budget and termination *)

\* C33: in an Authenticate() call with maxRetries = n the challenge requests are
\* at most max(0, n) + 1, the verify requests never more than the challenge
\* requests, the sleeps made are as many as the challenge requests less one
\* when the call returns (and never more than the challenge requests), and
\* n <= 0 gives exactly one attempt.
C33_SharedBudget ==
    InFlight =>
        /\ Cardinality(ChallengeIdx) <= Max0(entryClient.maxRetries) + 1
        /\ Cardinality(VerifyIdx) <= Cardinality(ChallengeIdx)
        /\ Cardinality(SleepIdx) <= Cardinality(ChallengeIdx)
        /\ pc = "done" =>
              /\ Cardinality(SleepIdx) = Cardinality(ChallengeIdx) - 1
              /\ entryClient.maxRetries <= 0 =>
                    /\ Cardinality(ChallengeIdx) = 1
                    /\ Cardinality(SleepIdx) = 0

C33_Witness ==
    /\ pc = "done" /\ result.state = "error"
    /\ entryClient.maxRetries = 2
    /\ Cardinality(ChallengeIdx) = 3
    /\ Cardinality(VerifyIdx) = 2
    /\ Cardinality(SleepIdx) = 2
    /\ trace[Len(trace)].op = "challenge"

\* an Authenticate() call is running and has not yet computed its result
Running == pc \in {"challenge", "sign", "verify", "sleep"}

\* C34 as stated: Authenticate() always ends with a session or an error, the
\* remaining-retries counter decreases at every retry and is never below zero.
C34_TerminatesCounterNonNegative ==
    /\ Running ~> pc = "done"
    /\ [](pc = "done" => result.state \in {"ok", "error"})
    /\ [][(pc = "sleep" /\ pc' # "sleep") => retriesLeft' < retriesLeft]_vars
    /\ [](InFlight => retriesLeft >= 0)

\* C34: Authenticate() always ends with a session or an error, whatever the
\* verifier answers, provided every network call and every sleep returns; the
\* remaining-retries counter decreases by one at every retry, changes at no
\* other step, and is never decreased below zero (with a negative maxRetries
\* it is negative from the start and no retry is made).
C34_Terminates ==
    /\ Running ~> pc = "done"
    /\ [](pc = "done" => result.state \in {"ok", "error"})
    /\ [][(pc = "sleep" /\ pc' # "sleep") =>
             /\ retriesLeft' = retriesLeft - 1
             /\ retriesLeft' >= 0]_vars
    /\ [][(Running /\ pc # "sleep") => retriesLeft' = retriesLeft]_vars
    /\ [](InFlight => retriesLeft >= entryClient.maxRetries - Max0(entryClient.maxRetries))
    /\ [](InFlight => retriesLeft = entryClient.maxRetries - Cardinality(SleepIdx))

C34_Witness ==
    /\ pc = "done" /\ result.state = "error"
    /\ entryClient.maxRetries = 2 /\ retriesLeft = 0
    /\ Cardinality(SleepIdx) = 2
    /\ \A i \in RequestIdx : trace[i].answer.status = 503

\* the challenge endpoint answered 200 with a body RequestChallenge accepts
\* and an empty or missing challenge field
EmptyChallenge(e) ==
    /\ e.op = "challenge"
    /\ e.err = NoError
    /\ e.challenge = ""

\* C35: after a challenge request answered 200 with an empty or missing
\* challenge field the call fails at the sign step: the sign step is the last
\* thing the call does and it fails, Authenticate() returns that error whatever
\* the remaining budget, and no empty challenge is signed or sent to /verify.
C35_EmptyChallengeFailsAtSign ==
    /\ \A i \in 1..Len(trace) :
          /\ (EmptyChallenge(trace[i]) /\ i < Len(trace)) =>
                /\ Len(trace) = i + 1
                /\ trace[i + 1].op = "sign"
                /\ trace[i + 1].err # NoError
                /\ pc = "done"
                /\ result.state = "error"
                /\ result.err = Wrap("failed to sign challenge: %w", "", trace[i + 1].err)
          /\ (trace[i].op = "sign" /\ trace[i].challenge = "") => trace[i].err # NoError
          /\ trace[i].op = "verify" => trace[i].request.Challenge # ""
    /\ (Len(trace) > 0 /\ EmptyChallenge(trace[Len(trace)])) => pc = "sign"

C35_Witness ==
    /\ pc = "done" /\ result.state = "error"
    /\ retriesLeft = 2
    /\ Len(trace) = 2
    /\ EmptyChallenge(trace[1])
    /\ trace[2].op = "sign"

-----------------------------------------------------------------------------
(* authclient: the constructors *)

\* C36 as stated: every Client a constructor returns without error holds a
\* non-empty base endpoint, a non-empty client identifier and a private key,
\* and no request goes to an empty base endpoint or carries an empty client
\* identifier.
C36_ConstructedComplete ==
    /\ Constructed =>
          /\ client.baseURL # EmptyString
          /\ client.clientID # ""
          /\ client.privateKey # NilKey
    /\ \A i \in ChallengeIdx :
          /\ trace[i].url # EndpointChallenge
          /\ trace[i].request.clientId # ""
    /\ \A i \in VerifyIdx :
          /\ trace[i].url # EndpointVerify
          /\ trace[i].request.ClientID # ""

\* C37 as stated: constructing a client leaves the caller's HTTP client object
\* as it was, and each of two clients constructed with it uses the timeout it
\* was constructed with.
C37_HTTPClientUntouched ==
    /\ httpObj = [Timeout |-> 0]
    /\ Constructed => EffectiveTimeout(client) = client.timeout
    /\ other # NilClient => EffectiveTimeout(other) = other.timeout

-----------------------------------------------------------------------------
(* authmiddleware: the whitelist match *)

\* the entry occurs, character by character, at the start of the request path
EntryIsPrefix(entry) ==
    /\ Len(entry) <= Len(req.Path)
    /\ \A j \in 1..Len(entry) : req.Path[j] = entry[j]

\* the request was let through on its path alone: forwarded without the origin
\* check, the Authorization header or the supplier being looked at
TreatedAsWhitelisted == Forwarded /\ tokenReads = << >> /\ ~IsOptions

\* C38: a path is treated as whitelisted exactly when some whitelist entry is a
\* string prefix of it, with no path-segment boundary required; an empty-string
\* entry whitelists every path, and with an empty whitelist no path is
\* whitelisted.
C38_WhitelistIsStringPrefix ==
    (handled /\ ~IsOptions) =>
        /\ TreatedAsWhitelisted <=>
               \E i \in 1..Len(config.WhitelistPaths) :
                   EntryIsPrefix(config.WhitelistPaths[i])
        /\ (\E i \in 1..Len(config.WhitelistPaths) : config.WhitelistPaths[i] = << >>) =>
               TreatedAsWhitelisted
        /\ config.WhitelistPaths = << >> => ~TreatedAsWhitelisted

\* "/h" whitelists "/hz": the entry ends in the middle of a path segment
C38_Witness ==
    /\ handled /\ ~IsOptions
    /\ config.WhitelistPaths = <<PathHealth>>
    /\ req.Path = PathHealthz
    /\ config.RequireTunnel /\ ~MarkerPresent
    /\ ~AuthPresent
    /\ TreatedAsWhitelisted

-----------------------------------------------------------------------------
(* authmiddleware: the calls of the token supplier *)

\* the first Authorization value of request r, empty when there is none
AuthOf(r) ==
    IF Len(r.Header["Authorization"]) > 0 THEN r.Header["Authorization"][1] ELSE << >>

\* request r is one the supplier may be asked for: not OPTIONS, no whitelist
\* entry at the start of its path, the origin check passed, and an
\* Authorization value that begins with "Bearer" and one space
MayAskSupplier(r) ==
    /\ r.Method # "OPTIONS"
    /\ ~\E i \in 1..Len(config.WhitelistPaths) :
           /\ Len(config.WhitelistPaths[i]) <= Len(r.Path)
           /\ \A j \in 1..Len(config.WhitelistPaths[i]) :
                  r.Path[j] = config.WhitelistPaths[i][j]
    /\ \/ ~config.RequireTunnel
       \/ /\ Len(r.Header["Cloudflare-Cdn-Loop"]) > 0
          /\ r.Header["Cloudflare-Cdn-Loop"][1] # << >>
    /\ Len(AuthOf(r)) >= 7
    /\ SubSeq(AuthOf(r), 1, 7) = <<"B", "e", "a", "r", "e", "r", " ">>

\* C39: the gate calls the token supplier at most once per request, and only
\* for a request that is not OPTIONS, not whitelisted, passes the origin check
\* and carries a well-formed "Bearer <token>" header; the value compared with
\* the presented token is the value that was tested for emptiness, whatever
\* the supplier has returned to other callers in between.
C39_SupplierOncePerRequest ==
    \A g \in Goroutines :
        /\ Len(flight[g].reads) <= 1
        /\ flight[g].reads # << >> => MayAskSupplier(flight[g].req)
        /\ (flight[g].pc = "done" /\ flight[g].reads # << >>) =>
               LET v == flight[g].reads[1] IN
               IF v = << >>
               THEN flight[g].status = 500 /\ flight[g].next = 0
               ELSE IF AuthOf(flight[g].req) = <<"B", "e", "a", "r", "e", "r", " ">> \o v
                    THEN flight[g].status = 0 /\ flight[g].next = 1
                    ELSE flight[g].status = 401 /\ flight[g].next = 0

\* a request forwarded on the value it was given, the supplier having moved on
C39_Witness ==
    \E g \in Goroutines :
        /\ flight[g].pc = "done"
        /\ flight[g].reads = << <<"t", "1">> >>
        /\ accessToken # <<"t", "1">>
        /\ config.RequireTunnel
        /\ flight[g].status = 0 /\ flight[g].next = 1
====
